---- MODULE Spec2Model ----
(***************************************************************************)
(* State-machine model of the response-validation core of oidc-client:     *)
(* MetadataService (src/src/MetadataService.ts) and ResponseValidator      *)
(* (src/src/ResponseValidator.ts).                                         *)
(*                                                                         *)
(* Every `await` of the source is a step boundary: an action runs one      *)
(* synchronous segment of the code, from the resumption of an await to the *)
(* next suspension.  A call of an async function runs the callee's         *)
(* synchronous prefix inside the caller's action, as JavaScript does.      *)
(***************************************************************************)
EXTENDS Integers, Sequences, FiniteSets, TLC

VARIABLES
    provider,       \* the identity provider: what its metadata URL and jwks_uri may serve
    settings,       \* OidcClientSettingsStore: read-only configuration
    _metadataUrl,   \* MetadataService._metadataUrl ("" = null)
    _metadata,      \* MetadataService._metadata    (Null or Some(doc))
    _signingKeys,   \* MetadataService._signingKeys (Null or Some(keys))
    pc,             \* per invocation: position in validateSigninResponse
    args,           \* per invocation: the (state, response) the call was made with
    resp,           \* per invocation: the response object being enriched
    loc,            \* per invocation: local variables of the pipeline
    mcall,          \* per invocation: the MetadataService call in progress
    result,         \* per invocation: how the call ended
    log             \* per invocation: collaborator calls made so far, in order

vars == <<provider, settings, _metadataUrl, _metadata, _signingKeys,
          pc, args, resp, loc, mcall, result, log>>

msVars == <<provider, settings, _metadataUrl, _metadata, _signingKeys>>

-----------------------------------------------------------------------------
(* Bounds *)

NumProcs == 2

Procs == 1..NumProcs

-----------------------------------------------------------------------------
(* Values *)

\* null / undefined for object-valued slots; a present value is Some(v)
Null == {}
Some(x) == {x}
Val(m) == CHOOSE x \in m : TRUE

\* A JSON object is a function from property names to values.
EmptyObject == [n \in {} |-> ""]

\* Object.assign({}, a, b)
Assign(a, b) ==
    [n \in (DOMAIN a) \cup (DOMAIN b) |-> IF n \in DOMAIN b THEN b[n] ELSE a[n]]

\* delete obj[n] for every n in names
Without(obj, names) == [n \in (DOMAIN obj) \ names |-> obj[n]]

\* Claim values are tagged: a string, a number, an array or an object.
S(v) == [k |-> "s", v |-> v]
N(v) == [k |-> "n", v |-> v]
A(v) == [k |-> "a", v |-> v]
O(v) == [k |-> "o", v |-> v]
Undefined == [k |-> "u"]

\* obj[name] of JavaScript
Get(obj, name) == IF name \in DOMAIN obj THEN obj[name] ELSE Undefined

\* JavaScript truthiness of a claim value
Truthy(x) ==
    CASE x.k = "u" -> FALSE
      [] x.k = "s" -> x.v # ""
      [] x.k = "n" -> x.v # 0
      [] OTHER     -> TRUE

\* x === "str" for a claim value x and a string
IsStr(x, str) == x.k = "s" /\ x.v = str

-----------------------------------------------------------------------------
(* Timer.getEpochTime *)

Now == 1000

-----------------------------------------------------------------------------
(* Strings *)

CharAt(s, i) == SubSeq(s, i, i)

\* s.startsWith(prefix)
StartsWith(s, prefix) ==
    Len(s) >= Len(prefix) /\ SubSeq(s, 1, Len(prefix)) = prefix

\* s.substr(start, length), start counted from 0
Substr(s, start, length) ==
    LET last == IF start + length > Len(s) THEN Len(s) ELSE start + length
    IN  IF start >= Len(s) THEN "" ELSE SubSeq(s, start + 1, last)

DigitChars == "0123456789"

IsDigit(c) == \E i \in 1..10 : CharAt(DigitChars, i) = c

DigitVal(c) == (CHOOSE i \in 1..10 : CharAt(DigitChars, i) = c) - 1

\* number of leading decimal digits of s
RECURSIVE DigitPrefixLen(_)
DigitPrefixLen(s) ==
    IF Len(s) = 0 \/ ~IsDigit(CharAt(s, 1)) THEN 0
    ELSE 1 + DigitPrefixLen(SubSeq(s, 2, Len(s)))

RECURSIVE DigitsValue(_)
DigitsValue(s) ==
    IF Len(s) = 0 THEN 0
    ELSE 10 * DigitsValue(SubSeq(s, 1, Len(s) - 1)) + DigitVal(CharAt(s, Len(s)))

\* parseInt(s): the value of the leading decimal digits, Null for NaN
ParseInt(s) ==
    LET n == DigitPrefixLen(s)
    IN  IF n = 0 THEN Null ELSE Some(DigitsValue(SubSeq(s, 1, n)))

-----------------------------------------------------------------------------
(* JoseUtil: the JWT primitives the validator consumes *)

HexChars == "0123456789abcdef"

HexVal(c) == (CHOOSE i \in 1..16 : CharAt(HexChars, i) = c) - 1

Base64UrlChars == "ABCDEFGHIJKLMNOPQRSTUVWXYZabcdefghijklmnopqrstuvwxyz0123456789-_"

\* the 4 bits of one hex digit, most significant first
Nibble(v) == << (v \div 8) % 2, (v \div 4) % 2, (v \div 2) % 2, v % 2 >>

RECURSIVE HexBits(_)
HexBits(hex) ==
    IF Len(hex) = 0 THEN << >>
    ELSE Nibble(HexVal(CharAt(hex, 1))) \o HexBits(SubSeq(hex, 2, Len(hex)))

\* the i-th bit, 0 past the end (the zero padding of the last sextet)
BitAt(bits, i) == IF i <= Len(bits) THEN bits[i] ELSE 0

Sextet(bits, j) ==
    32 * BitAt(bits, j) + 16 * BitAt(bits, j + 1) + 8 * BitAt(bits, j + 2)
    + 4 * BitAt(bits, j + 3) + 2 * BitAt(bits, j + 4) + BitAt(bits, j + 5)

RECURSIVE EncodeSextets(_, _)
EncodeSextets(bits, j) ==
    IF j > Len(bits) THEN ""
    ELSE CharAt(Base64UrlChars, Sextet(bits, j) + 1) \o EncodeSextets(bits, j + 6)

\* JoseUtil.hexToBase64Url: base64url of the bytes written in hex, no padding
hexToBase64Url(hex) == EncodeSextets(HexBits(hex), 1)

AccessTokens == {"at1", "at2"}

\* JoseUtil.hashString(value, alg): the digest in hex (a fixed table stands
\* for the hash functions; distinct inputs have distinct digests)
hashString(value, sha) ==
    CASE value = "at1" /\ sha = "sha256" -> "a1b2c3d4"
      [] value = "at2" /\ sha = "sha256" -> "a1b3c3d4"
      [] value = "at1" /\ sha = "sha384" -> "5e6f70819203"
      [] value = "at2" /\ sha = "sha384" -> "0f1e2d3c4b5a"
      [] value = "at1" /\ sha = "sha512" -> "deadbeef01234567"
      [] value = "at2" /\ sha = "sha512" -> "76543210feedface"
      [] OTHER -> ""

\* the at_hash a provider puts in an id_token issued with access token tok
AtHashOf(tok, sha) ==
    LET hash == hashString(tok, sha)
    IN  hexToBase64Url(Substr(hash, 0, Len(hash) \div 2))

-----------------------------------------------------------------------------
(* Signing keys and key sets (the JWKS the provider publishes) *)

Key(kid, kty, mat) == [kid |-> kid, kty |-> kty, mat |-> mat]

KeyOld == Key("k1", "RSA", "m1")
KeyNew == Key("k2", "RSA", "m2")
KeyEC  == Key("k3", "EC", "m3")
KeyPS  == Key("k4", "PS", "m4")

KeySets ==
    { << >>,
      <<KeyOld>>,
      <<KeyNew>>,
      <<KeyOld, KeyNew>>,
      <<KeyOld, KeyEC, KeyPS>> }

-----------------------------------------------------------------------------
(* Discovery metadata documents *)

FullMetadata ==
    [ issuer                 |-> "issA",
      authorization_endpoint |-> "authz",
      userinfo_endpoint      |-> "userinfo",
      token_endpoint         |-> "token",
      jwks_uri               |-> "jwks",
      end_session_endpoint   |-> "logout",
      check_session_iframe   |-> "iframe",
      revocation_endpoint    |-> "revoke" ]

\* what the metadata URL may serve
MetadataDocs ==
    { FullMetadata,
      Without(FullMetadata, {"jwks_uri"}),
      Without(FullMetadata, {"issuer"}) }

-----------------------------------------------------------------------------
(* Id tokens: what each compact JWT string encodes *)

GoodHeader == [kid |-> "k1", alg |-> "RS256"]

GoodPayload ==
    [ iss     |-> S("issA"),
      aud     |-> S("c1"),
      exp     |-> N(Now + 600),
      nonce   |-> S("n1"),
      sub     |-> S("abc"),
      at_hash |-> S(AtHashOf("at1", "sha256")),
      name    |-> S("Ann") ]

Jwt(header, payload, sig) ==
    [parses |-> TRUE, header |-> header, payload |-> payload, sig |-> sig]

\* sig is the key material whose signature the token carries
JwtTable ==
    [ idt_ok       |-> Jwt(GoodHeader, GoodPayload, "m1"),
      idt_kid2     |-> Jwt([GoodHeader EXCEPT !.kid = "k2"], GoodPayload, "m2"),
      idt_nokid    |-> Jwt([GoodHeader EXCEPT !.kid = ""], GoodPayload, "m1"),
      idt_nokid_es |-> Jwt([kid |-> "", alg |-> "ES256"], GoodPayload, "m3"),
      idt_nokid_ps |-> Jwt([kid |-> "", alg |-> "PS256"], GoodPayload, "m4"),
      idt_nokid_hs |-> Jwt([kid |-> "", alg |-> "HS256"], GoodPayload, "m1"),
      idt_rs384    |-> Jwt([GoodHeader EXCEPT !.alg = "RS384"],
                           [GoodPayload EXCEPT !.at_hash = S(AtHashOf("at1", "sha384"))], "m1"),
      idt_forged   |-> Jwt(GoodHeader, GoodPayload, "mX"),
      idt_badnonce |-> Jwt(GoodHeader, [GoodPayload EXCEPT !.nonce = S("n2")], "m1"),
      idt_nononce  |-> Jwt(GoodHeader, Without(GoodPayload, {"nonce"}), "m1"),
      idt_nosub    |-> Jwt(GoodHeader, Without(GoodPayload, {"sub"}), "m1"),
      idt_noathash |-> Jwt(GoodHeader, Without(GoodPayload, {"at_hash"}), "m1"),
      idt_expired  |-> Jwt(GoodHeader, [GoodPayload EXCEPT !.exp = N(Now - 600)], "m1"),
      idt_badiss   |-> Jwt(GoodHeader, [GoodPayload EXCEPT !.iss = S("issX")], "m1"),
      idt_garbage  |-> [parses |-> FALSE, header |-> GoodHeader,
                        payload |-> EmptyObject, sig |-> ""],
      idt_rs512    |-> Jwt([GoodHeader EXCEPT !.alg = "RS512"],
                           [GoodPayload EXCEPT !.at_hash = S(AtHashOf("at1", "sha512"))], "m1"),
      idt_alg4     |-> Jwt([GoodHeader EXCEPT !.alg = "RS25"], GoodPayload, "m1"),
      idt_alg6     |-> Jwt([GoodHeader EXCEPT !.alg = "RS2560"], GoodPayload, "m1"),
      idt_alg128   |-> Jwt([GoodHeader EXCEPT !.alg = "RS128"], GoodPayload, "m1"),
      idt_algnan   |-> Jwt([GoodHeader EXCEPT !.alg = "RSxyz"], GoodPayload, "m1"),
      idt_noalg    |-> Jwt([GoodHeader EXCEPT !.alg = ""], GoodPayload, "m1") ]

IdTokens == DOMAIN JwtTable

\* JoseUtil.parseJwt(token): {header, payload}, or null for a malformed token
parseJwt(token) ==
    IF token \in IdTokens /\ JwtTable[token].parses
    THEN Some([header |-> JwtTable[token].header, payload |-> JwtTable[token].payload])
    ELSE Null

\* the iss / aud / exp checks shared by validateJwt and validateJwtAttributes
AttributesValid(payload, issuer, audience, clockSkew, now) ==
    /\ IsStr(Get(payload, "iss"), issuer)
    /\ IsStr(Get(payload, "aud"), audience)
    /\ Get(payload, "exp").k = "n"
    /\ Get(payload, "exp").v + clockSkew >= now

\* JoseUtil.validateJwtAttributes(token, issuer, audience, clockSkew, now):
\* the payload, or Null when it throws; no signature check
validateJwtAttributes(token, issuer, audience, clockSkew, now) ==
    LET jwt == parseJwt(token)
    IN  IF jwt # Null /\ AttributesValid(Val(jwt).payload, issuer, audience, clockSkew, now)
        THEN Some(Val(jwt).payload)
        ELSE Null

\* JoseUtil.validateJwt(token, key, issuer, audience, clockSkew): TRUE when it
\* returns, FALSE when it throws; signature and attributes
validateJwt(token, key, issuer, audience, clockSkew) ==
    /\ parseJwt(token) # Null
    /\ JwtTable[token].sig = key.mat
    /\ AttributesValid(Val(parseJwt(token)).payload, issuer, audience, clockSkew, Now)

-----------------------------------------------------------------------------
(* MetadataService *)

OidcMetadataUrlPath == ".well-known/openid-configuration"

\* constructor: the metadata URL resolved from the settings ("" = null)
ResolveMetadataUrl(cfg) ==
    IF cfg.metadataUrl # "" THEN cfg.metadataUrl
    ELSE IF cfg.authority # ""
         THEN (IF CharAt(cfg.authority, Len(cfg.authority)) # "/"
               THEN cfg.authority \o "/"
               ELSE cfg.authority) \o OidcMetadataUrlPath
         ELSE ""

\* constructor: the fields of a new MetadataService
MetadataServiceInit(cfg) ==
    /\ settings = cfg
    /\ _metadataUrl = ResolveMetadataUrl(cfg)
    /\ _signingKeys = cfg.signingKeys
    /\ _metadata = cfg.metadata

\* No MetadataService call in progress
NoCall ==
    [ op |-> "none", name |-> "", optional |-> FALSE, phase |-> "none",
      md |-> Null, prop |-> Null, keys |-> Null, err |-> "" ]

ErrNoUrl == "No authority or metadataUrl configured on settings"
ErrNoProperty == "Metadata does not contain property "
ErrMissingKeys == "Missing keys on keyset"
ErrNetwork == "network error"

\* getMetadata going to the metadata URL whatever the metadata cache holds
GetMetadataBegin_NoCache(op, name, optional) ==
    LET c == [NoCall EXCEPT !.op = op, !.name = name, !.optional = optional]
    IN  IF _metadataUrl = ""
        THEN [call |-> [c EXCEPT !.phase = "thrown", !.err = ErrNoUrl], events |-> << >>]
        ELSE [call |-> [c EXCEPT !.phase = "fetch_metadata"], events |-> <<"getJson:metadata">>]

\* getMetadata fetching without a test of the metadata URL
GetMetadataBegin_NoUrlCheck(op, name, optional) ==
    LET c == [NoCall EXCEPT !.op = op, !.name = name, !.optional = optional]
    IN  IF _metadata # Null
        THEN [call |-> [c EXCEPT !.phase = "have_metadata", !.md = _metadata], events |-> << >>]
        ELSE [call |-> [c EXCEPT !.phase = "fetch_metadata"], events |-> <<"getJson:metadata">>]

\* getMetadata up to its first suspension, entered from _getMetadataProperty(name, optional)
\* on behalf of operation op: the cached document, the configuration error, or a fetch.
\* The result is the call record and the collaborator calls issued.
GetMetadataBegin(op, name, optional) ==
    LET c == [NoCall EXCEPT !.op = op, !.name = name, !.optional = optional]
    IN  IF _metadata # Null
        THEN [call |-> [c EXCEPT !.phase = "have_metadata", !.md = _metadata], events |-> << >>]
        ELSE IF _metadataUrl = ""
        THEN [call |-> [c EXCEPT !.phase = "thrown", !.err = ErrNoUrl], events |-> << >>]
        ELSE [call |-> [c EXCEPT !.phase = "fetch_metadata"], events |-> <<"getJson:metadata">>]

\* getIssuer()
GetIssuerBegin == GetMetadataBegin("getIssuer", "issuer", FALSE)

\* getSigningKeys going to jwks_uri whatever the key cache holds
GetSigningKeysBegin_NoCache(cache) ==
    GetMetadataBegin("getSigningKeys", "jwks_uri", FALSE)

\* getSigningKeys up to its first suspension, when the key cache holds `cache`
GetSigningKeysBegin(cache) ==
    IF cache # Null
    THEN [call |-> [NoCall EXCEPT !.op = "getSigningKeys", !.phase = "returned", !.keys = cache],
          events |-> << >>]
    ELSE GetMetadataBegin("getSigningKeys", "jwks_uri", FALSE)

\* what getJson(metadataUrl) may produce: a document, or a failure
MetadataFetchResults ==
    {[ok |-> TRUE, doc |-> d] : d \in MetadataDocs} \cup {[ok |-> FALSE, doc |-> EmptyObject]}

\* what getJson(jwks_uri) may produce: a key set, a document without keys, or a failure
KeySetFetchResults ==
    {[ok |-> TRUE, keys |-> Some(ks)] : ks \in KeySets}
    \cup {[ok |-> TRUE, keys |-> Null], [ok |-> FALSE, keys |-> Null]}

\* a provider whose documents may change from one fetch to the next
AnyProvider == [metadata |-> MetadataFetchResults, keys |-> KeySetFetchResults]

\* getMetadata returning the fetched document without caching it
MS_MetadataFetched_NoStore(p) ==
    /\ mcall[p].phase = "fetch_metadata"
    /\ \E r \in provider.metadata :
         IF r.ok
         THEN LET seed == IF settings.metadataSeed # Null
                          THEN Val(settings.metadataSeed) ELSE EmptyObject
                  doc  == Assign(seed, r.doc)
              IN  /\ mcall' = [mcall EXCEPT ![p].phase = "have_metadata", ![p].md = Some(doc)]
                  /\ UNCHANGED log
         ELSE /\ mcall' = [mcall EXCEPT ![p].phase = "thrown", ![p].err = ErrNetwork]
              /\ log' = [log EXCEPT ![p] = Append(@, "getJson:metadata:failed")]
    /\ UNCHANGED <<msVars, pc, args, resp, loc, result>>

\* getMetadata resumes with the outcome r of getJson(metadataUrl)
MS_MetadataFetched(p) ==
    /\ mcall[p].phase = "fetch_metadata"
    /\ \E r \in provider.metadata :
         IF r.ok
         THEN LET seed == IF settings.metadataSeed # Null
                          THEN Val(settings.metadataSeed) ELSE EmptyObject
                  doc  == Assign(seed, r.doc)
              IN  /\ _metadata' = Some(doc)
                  /\ mcall' = [mcall EXCEPT ![p].phase = "have_metadata", ![p].md = Some(doc)]
                  /\ UNCHANGED log
         ELSE /\ mcall' = [mcall EXCEPT ![p].phase = "thrown", ![p].err = ErrNetwork]
              /\ log' = [log EXCEPT ![p] = Append(@, "getJson:metadata:failed")]
              /\ UNCHANGED _metadata
    /\ UNCHANGED <<provider, settings, _metadataUrl, _signingKeys, pc, args, resp, loc, result>>

\* _getMetadataProperty treating every property as optional
MS_GetMetadataProperty_AllOptional(p) ==
    /\ mcall[p].phase = "have_metadata"
    /\ mcall[p].op # "getMetadata"
    /\ LET c  == mcall[p]
           md == Val(c.md)
       IN  IF c.name \notin DOMAIN md
           THEN /\ mcall' = [mcall EXCEPT ![p].phase = "returned", ![p].prop = Null]
                /\ UNCHANGED log
           ELSE IF c.op = "getSigningKeys"
                THEN /\ mcall' = [mcall EXCEPT ![p].phase = "fetch_keys",
                                               ![p].prop = Some(md[c.name])]
                     /\ log' = [log EXCEPT ![p] = Append(@, "getJson:jwks")]
                ELSE /\ mcall' = [mcall EXCEPT ![p].phase = "returned",
                                               ![p].prop = Some(md[c.name])]
                     /\ UNCHANGED log
    /\ UNCHANGED <<msVars, pc, args, resp, loc, result>>

\* _getMetadataProperty resumes with the metadata; getSigningKeys goes on to
\* fetch the key set from jwks_uri
MS_GetMetadataProperty(p) ==
    /\ mcall[p].phase = "have_metadata"
    /\ mcall[p].op # "getMetadata"
    /\ LET c  == mcall[p]
           md == Val(c.md)
       IN  IF c.name \notin DOMAIN md
           THEN IF c.optional
                THEN /\ mcall' = [mcall EXCEPT ![p].phase = "returned", ![p].prop = Null]
                     /\ UNCHANGED log
                ELSE /\ mcall' = [mcall EXCEPT ![p].phase = "thrown",
                                               ![p].err = ErrNoProperty \o c.name]
                     /\ UNCHANGED log
           ELSE IF c.op = "getSigningKeys"
                THEN /\ mcall' = [mcall EXCEPT ![p].phase = "fetch_keys",
                                               ![p].prop = Some(md[c.name])]
                     /\ log' = [log EXCEPT ![p] = Append(@, "getJson:jwks")]
                ELSE /\ mcall' = [mcall EXCEPT ![p].phase = "returned",
                                               ![p].prop = Some(md[c.name])]
                     /\ UNCHANGED log
    /\ UNCHANGED <<msVars, pc, args, resp, loc, result>>

\* getSigningKeys returning the fetched keys without caching them
MS_KeysFetched_NoStore(p) ==
    /\ mcall[p].phase = "fetch_keys"
    /\ \E r \in provider.keys :
         IF ~r.ok
         THEN /\ mcall' = [mcall EXCEPT ![p].phase = "thrown", ![p].err = ErrNetwork]
              /\ log' = [log EXCEPT ![p] = Append(@, "getJson:jwks:failed")]
         ELSE IF r.keys = Null
         THEN /\ mcall' = [mcall EXCEPT ![p].phase = "thrown", ![p].err = ErrMissingKeys]
              /\ UNCHANGED log
         ELSE /\ mcall' = [mcall EXCEPT ![p].phase = "returned", ![p].keys = r.keys]
              /\ UNCHANGED log
    /\ UNCHANGED <<msVars, pc, args, resp, loc, result>>

\* getSigningKeys caching an empty key list when the key set has no keys
MS_KeysFetched_StoreOnMissing(p) ==
    /\ mcall[p].phase = "fetch_keys"
    /\ \E r \in provider.keys :
         IF ~r.ok
         THEN /\ mcall' = [mcall EXCEPT ![p].phase = "thrown", ![p].err = ErrNetwork]
              /\ log' = [log EXCEPT ![p] = Append(@, "getJson:jwks:failed")]
              /\ UNCHANGED _signingKeys
         ELSE IF r.keys = Null
         THEN /\ mcall' = [mcall EXCEPT ![p].phase = "thrown", ![p].err = ErrMissingKeys]
              /\ _signingKeys' = Some(<< >>)
              /\ UNCHANGED log
         ELSE /\ _signingKeys' = r.keys
              /\ mcall' = [mcall EXCEPT ![p].phase = "returned", ![p].keys = r.keys]
              /\ UNCHANGED log
    /\ UNCHANGED <<provider, settings, _metadataUrl, _metadata, pc, args, resp, loc, result>>

\* getSigningKeys resumes with the outcome r of getJson(jwks_uri)
MS_KeysFetched(p) ==
    /\ mcall[p].phase = "fetch_keys"
    /\ \E r \in provider.keys :
         IF ~r.ok
         THEN /\ mcall' = [mcall EXCEPT ![p].phase = "thrown", ![p].err = ErrNetwork]
              /\ log' = [log EXCEPT ![p] = Append(@, "getJson:jwks:failed")]
              /\ UNCHANGED _signingKeys
         ELSE IF r.keys = Null
         THEN /\ mcall' = [mcall EXCEPT ![p].phase = "thrown", ![p].err = ErrMissingKeys]
              /\ UNCHANGED <<_signingKeys, log>>
         ELSE /\ _signingKeys' = r.keys
              /\ mcall' = [mcall EXCEPT ![p].phase = "returned", ![p].keys = r.keys]
              /\ UNCHANGED log
    /\ UNCHANGED <<provider, settings, _metadataUrl, _metadata, pc, args, resp, loc, result>>

-----------------------------------------------------------------------------
(* Configuration and call arguments *)

Authority == "https://idp.example"

OtherAuthority == "https://other.example"

\* OidcClientSettingsStore as the validator is configured
ValidatorSettings ==
    { [ authority            |-> Authority,
        metadataUrl          |-> "",
        metadata             |-> md,
        signingKeys          |-> ks,
        metadataSeed         |-> Null,
        client_id            |-> "c1",
        clockSkewInSeconds   |-> 300,
        filterProtocolClaims |-> fpc,
        loadUserInfo         |-> lui,
        mergeClaims          |-> FALSE ] :
      md \in {Null, Some(FullMetadata)},
      ks \in {Null, Some(<<KeyOld>>)},
      fpc \in BOOLEAN,
      lui \in BOOLEAN }

\* SigninState
SigninState(client_id, authority, nonce, code_verifier, skipUserInfo) ==
    [ id               |-> "s1",
      data             |-> "userdata",
      client_id        |-> client_id,
      client_secret    |-> "",
      authority        |-> authority,
      nonce            |-> nonce,
      code_verifier    |-> code_verifier,
      redirect_uri     |-> "https://app/cb",
      scope            |-> "openid",
      skipUserInfo     |-> skipUserInfo,
      extraTokenParams |-> Null ]

\* SigninResponse as parsed from the callback URL
SigninResponse(state, error, code, id_token, access_token, scope) ==
    [ state             |-> state,
      error             |-> error,
      error_description |-> IF error = "" THEN "" ELSE "denied by user",
      error_uri         |-> "",
      code              |-> code,
      id_token          |-> id_token,
      session_state     |-> "",
      access_token      |-> access_token,
      token_type        |-> IF access_token = "" THEN "" ELSE "Bearer",
      scope             |-> scope,
      expires_in        |-> IF access_token = "" THEN Null ELSE Some(60),
      profile           |-> Null ]

SigninCall(state, response) == [state |-> state, response |-> response]

\* Calls that exercise the correlation and parameter checks: every combination
\* of the fields _processSigninParams reads.
ParamCalls ==
    { SigninCall(SigninState(c, a, n, v, FALSE), SigninResponse(rs, e, cd, it, "", "")) :
        c \in {"", "c1", "c2"}, a \in {"", Authority, OtherAuthority},
        rs \in {"s1", "s2"}, e \in {"", "access_denied"},
        n \in {"", "n1"}, v \in {"", "v1"},
        cd \in {"", "code1"}, it \in {"", "idt_ok"} }

\* Implicit-flow callbacks: an id_token, no code
ImplicitCalls ==
    { SigninCall(SigninState("c1", Authority, "n1", "", sk), SigninResponse("s1", "", "", it, at, "")) :
        it \in IdTokens, at \in {""} \cup AccessTokens, sk \in BOOLEAN }

\* Code-flow callbacks: a code, with or without a front-channel id_token
CodeCalls ==
    { SigninCall(SigninState("c1", Authority, h[1], "v1", sk),
                 SigninResponse("s1", "", "code1", h[2], at, sc)) :
        h \in {<<"", "">>, <<"n1", "idt_ok">>, <<"n1", "idt_forged">>},
        at \in {"", "at1"}, sc \in {"", "api"}, sk \in BOOLEAN }

\* Plain OAuth2 callbacks: neither code nor id_token
PlainCalls ==
    { SigninCall(SigninState("c1", Authority, "", "", sk), SigninResponse("s1", "", "", "", at, sc)) :
        at \in {"", "at1"}, sc \in {"", "api"}, sk \in BOOLEAN }

SigninCalls == ParamCalls \cup ImplicitCalls \cup CodeCalls \cup PlainCalls

NoArgs == SigninCall(SigninState("", "", "", "", FALSE), SigninResponse("", "", "", "", "", ""))

\* the local variables of one validateSigninResponse invocation
NoLocals ==
    [ access_token    |-> "",      \* _validateTokens: const access_token
      withAccessToken |-> FALSE,   \* _validateTokens: the branch taken
      jwt             |-> Null,    \* _validateIdToken: const jwt
      issuer          |-> "",      \* const issuer
      attempt         |-> 0,       \* which _getSigningKeyForJwt call is running
      keys            |-> Null,    \* _getSigningKeyForJwt: let keys
      key             |-> Null,    \* const key
      request         |-> Null,    \* _processCode: const request
      tokenResponse   |-> Null ]   \* _processCode: const tokenResponse

NoResult == [status |-> "none", kind |-> "", error |-> "", payload |-> Null]

\* throw new Error(msg)
Thrown(msg) == [status |-> "failed", kind |-> "Error", error |-> msg, payload |-> Null]

\* throw new ErrorResponse(response)
ThrownErrorResponse(response) ==
    [ status |-> "failed", kind |-> "ErrorResponse", error |-> response.error,
      payload |-> Some([ error             |-> response.error,
                         error_description |-> response.error_description,
                         error_uri         |-> response.error_uri,
                         state             |-> response.state,
                         session_state     |-> response.session_state ]) ]

\* return response
Returned == [status |-> "returned", kind |-> "", error |-> "", payload |-> Null]

-----------------------------------------------------------------------------
(* Initial state: one MetadataService and one ResponseValidator constructed;  *)
(* invocation 1 may be started.                                              *)

Init ==
    /\ provider = AnyProvider
    /\ \E cfg \in ValidatorSettings : MetadataServiceInit(cfg)
    /\ pc = [p \in Procs |-> IF p = 1 THEN "idle" ELSE "off"]
    /\ args = [p \in Procs |-> NoArgs]
    /\ resp = [p \in Procs |-> NoArgs.response]
    /\ loc = [p \in Procs |-> NoLocals]
    /\ mcall = [p \in Procs |-> NoCall]
    /\ result = [p \in Procs |-> NoResult]
    /\ log = [p \in Procs |-> << >>]

-----------------------------------------------------------------------------
(* ResponseValidator.validateSigninResponse *)

\* An invocation ends: the promise is rejected or resolved
Finish(p, res) ==
    /\ result' = [result EXCEPT ![p] = res]
    /\ pc' = [pc EXCEPT ![p] = "done"]

\* The caller invokes validateSigninResponse(state, response)
Start(p) ==
    /\ pc[p] = "idle"
    /\ \E call \in SigninCalls :
         /\ args' = [args EXCEPT ![p] = call]
         /\ resp' = [resp EXCEPT ![p] = call.response]
    /\ pc' = [pc EXCEPT ![p] = "processSigninParams"]
    /\ UNCHANGED <<msVars, loc, mcall, result, log>>

\* _processSigninParams, the checks of the request state against the response
\* and the settings: the message of the error thrown, "" when all pass
StateChecks_NoIdCheck(state, response) ==
    IF state.client_id = "" THEN "No client_id on state"
    ELSE IF state.authority = "" THEN "No authority on state"
    ELSE IF settings.authority # state.authority
    THEN "authority mismatch on settings vs. signin state"
    ELSE IF settings.client_id # "" /\ settings.client_id # state.client_id
    THEN "client_id mismatch on settings vs. signin state"
    ELSE ""

StateChecks(state, response) ==
    IF state.id # response.state THEN "State does not match"
    ELSE IF state.client_id = "" THEN "No client_id on state"
    ELSE IF state.authority = "" THEN "No authority on state"
    ELSE IF settings.authority # state.authority
    THEN "authority mismatch on settings vs. signin state"
    ELSE IF settings.client_id # "" /\ settings.client_id # state.client_id
    THEN "client_id mismatch on settings vs. signin state"
    ELSE ""

\* _processSigninParams, the checks of nonce against id_token and of
\* code_verifier against code: the message of the error thrown, "" when all pass
ParamChecks_NoCodeCheck(state, response) ==
    IF state.nonce # "" /\ response.id_token = "" THEN "No id_token in response"
    ELSE IF state.nonce = "" /\ response.id_token # "" THEN "Unexpected id_token in response"
    ELSE IF state.code_verifier # "" /\ response.code = "" THEN "No code in response"
    ELSE ""

ParamChecks(state, response) ==
    IF state.nonce # "" /\ response.id_token = "" THEN "No id_token in response"
    ELSE IF state.nonce = "" /\ response.id_token # "" THEN "Unexpected id_token in response"
    ELSE IF state.code_verifier # "" /\ response.code = "" THEN "No code in response"
    ELSE IF state.code_verifier = "" /\ response.code # "" THEN "Unexpected code in response"
    ELSE ""

\* _processSigninParams with state.data copied only on the way out
_processSigninParams_LateCopy(state, response) ==
    IF StateChecks(state, response) # ""
    THEN [res |-> Thrown(StateChecks(state, response)), response |-> response]
    ELSE IF response.error # ""
    THEN [res |-> ThrownErrorResponse(response), response |-> response]
    ELSE IF ParamChecks(state, response) # ""
    THEN [res |-> Thrown(ParamChecks(state, response)), response |-> response]
    ELSE [res |-> Returned,
          response |-> [response EXCEPT !.state = state.data,
                                        !.scope = IF @ = "" THEN state.scope ELSE @]]

\* _processSigninParams without the check of response.error
_processSigninParams_NoErrorCheck(state, response) ==
    LET r == [response EXCEPT !.state = state.data]
    IN  IF StateChecks(state, response) # ""
        THEN [res |-> Thrown(StateChecks(state, response)), response |-> response]
        ELSE IF ParamChecks(state, r) # ""
        THEN [res |-> Thrown(ParamChecks(state, r)), response |-> r]
        ELSE [res |-> Returned,
              response |-> [r EXCEPT !.scope = IF @ = "" THEN state.scope ELSE @]]

\* _processSigninParams(state, response): the outcome and the response object
\* as the function leaves it (it is mutated in place, also when it throws)
_processSigninParams(state, response) ==
    LET r == [response EXCEPT !.state = state.data]
    IN  IF StateChecks(state, response) # ""
        THEN [res |-> Thrown(StateChecks(state, response)), response |-> response]
        ELSE IF r.error # ""
        THEN [res |-> ThrownErrorResponse(r), response |-> r]
        ELSE IF ParamChecks(state, r) # ""
        THEN [res |-> Thrown(ParamChecks(state, r)), response |-> r]
        ELSE [res |-> Returned,
              response |-> [r EXCEPT !.scope = IF @ = "" THEN state.scope ELSE @]]

\* validateSigninResponse, first statement
ProcessSigninParams(p) ==
    /\ pc[p] = "processSigninParams"
    /\ LET out == _processSigninParams(args[p].state, resp[p])
       IN  /\ resp' = [resp EXCEPT ![p] = out.response]
           /\ IF out.res.status = "failed"
              THEN Finish(p, out.res)
              ELSE /\ pc' = [pc EXCEPT ![p] = "validateTokens"]
                   /\ UNCHANGED result
    /\ UNCHANGED <<msVars, args, loc, mcall, log>>

\* _processCode up to the token exchange: the request sent to the token endpoint
CodeRequest(state, response) ==
    LET request == [ client_id     |-> state.client_id,
                     client_secret |-> state.client_secret,
                     code          |-> response.code,
                     redirect_uri  |-> state.redirect_uri,
                     code_verifier |-> state.code_verifier ]
    IN  IF state.extraTokenParams # Null
        THEN Assign(request, Val(state.extraTokenParams))
        ELSE request

\* _validateIdToken up to its first suspension (the getIssuer call)
ValidateIdTokenBegin(p) ==
    LET state    == args[p].state
        id_token == resp[p].id_token
        jwt      == parseJwt(id_token)
    IN  IF state.nonce = ""
        THEN /\ Finish(p, Thrown("No nonce on state"))
             /\ UNCHANGED <<mcall, log>>
             /\ loc' = [loc EXCEPT ![p].access_token = resp[p].access_token,
                                   ![p].withAccessToken = resp[p].access_token # ""]
        ELSE IF jwt = Null
        THEN /\ Finish(p, Thrown("Failed to parse id_token"))
             /\ log' = [log EXCEPT ![p] = Append(@, "parseJwt")]
             /\ UNCHANGED mcall
             /\ loc' = [loc EXCEPT ![p].access_token = resp[p].access_token,
                                   ![p].withAccessToken = resp[p].access_token # ""]
        ELSE IF ~IsStr(Get(Val(jwt).payload, "nonce"), state.nonce)
        THEN /\ Finish(p, Thrown("Invalid nonce in id_token"))
             /\ log' = [log EXCEPT ![p] = Append(@, "parseJwt")]
             /\ UNCHANGED mcall
             /\ loc' = [loc EXCEPT ![p].access_token = resp[p].access_token,
                                   ![p].withAccessToken = resp[p].access_token # "",
                                   ![p].jwt = jwt]
        ELSE /\ mcall' = [mcall EXCEPT ![p] = GetIssuerBegin.call]
             /\ log' = [log EXCEPT ![p] = Append(@, "parseJwt") \o GetIssuerBegin.events]
             /\ loc' = [loc EXCEPT ![p].access_token = resp[p].access_token,
                                   ![p].withAccessToken = resp[p].access_token # "",
                                   ![p].jwt = jwt]
             /\ pc' = [pc EXCEPT ![p] = "validateIdToken:getIssuer"]
             /\ UNCHANGED result

\* _validateTokens testing id_token before code
ValidateTokens_IdTokenFirst(p) ==
    /\ pc[p] = "validateTokens"
    /\ IF resp[p].id_token # ""
       THEN ValidateIdTokenBegin(p)
       ELSE IF resp[p].code # ""
       THEN /\ loc' = [loc EXCEPT ![p].request = Some(CodeRequest(args[p].state, resp[p]))]
            /\ log' = [log EXCEPT ![p] = Append(@, "exchangeCode")]
            /\ pc' = [pc EXCEPT ![p] = "processCode:exchangeCode"]
            /\ UNCHANGED <<mcall, result>>
       ELSE /\ pc' = [pc EXCEPT ![p] = "processClaims"]
            /\ UNCHANGED <<loc, mcall, result, log>>
    /\ UNCHANGED <<msVars, args, resp>>

\* _validateTokens: the branch on the payload shape, and the callee up to its
\* first suspension
ValidateTokens(p) ==
    /\ pc[p] = "validateTokens"
    /\ IF resp[p].code # ""
       THEN /\ loc' = [loc EXCEPT ![p].request = Some(CodeRequest(args[p].state, resp[p]))]
            /\ log' = [log EXCEPT ![p] = Append(@, "exchangeCode")]
            /\ pc' = [pc EXCEPT ![p] = "processCode:exchangeCode"]
            /\ UNCHANGED <<mcall, result>>
       ELSE IF resp[p].id_token # ""
       THEN ValidateIdTokenBegin(p)
       ELSE /\ pc' = [pc EXCEPT ![p] = "processClaims"]
            /\ UNCHANGED <<loc, mcall, result, log>>
    /\ UNCHANGED <<msVars, args, resp>>

-----------------------------------------------------------------------------
(* Id-token validation with signature (implicit / hybrid callbacks) *)

\* _filterByAlg(keys, alg)
_filterByAlg(keys, alg) ==
    LET kty == IF StartsWith(alg, "RS") THEN "RSA"
               ELSE IF StartsWith(alg, "PS") THEN "PS"
               ELSE IF StartsWith(alg, "ES") THEN "EC"
               ELSE ""
        HasKty(key) == key.kty = kty
    IN  IF kty = "" THEN << >> ELSE SelectSeq(keys, HasKty)

\* _getSigningKeyForJwt taking the first of several keys of the family
_getSigningKeyForJwt_FirstOfMany(keys, header) ==
    LET HasKid(key) == key.kid = header.kid
        byKid == SelectSeq(keys, HasKid)
        byAlg == _filterByAlg(keys, header.alg)
    IN  IF header.kid # ""
        THEN (IF byKid = << >> THEN Null ELSE Some(byKid[1]))
        ELSE IF Len(byAlg) < 1 THEN Null ELSE Some(byAlg[1])

\* _getSigningKeyForJwt, after the keys were received: the key for the header,
\* or Null
_getSigningKeyForJwt(keys, header) ==
    LET HasKid(key) == key.kid = header.kid
        byKid == SelectSeq(keys, HasKid)
        byAlg == _filterByAlg(keys, header.alg)
    IN  IF header.kid # ""
        THEN (IF byKid = << >> THEN Null ELSE Some(byKid[1]))
        ELSE IF Len(byAlg) # 1 THEN Null ELSE Some(byAlg[1])

\* _validateIdToken resumes with the issuer and calls
\* _getSigningKeyForJwtWithSingleRetry, which calls _getSigningKeyForJwt, which
\* calls getSigningKeys
ValidateIdToken_Issuer(p) ==
    /\ pc[p] = "validateIdToken:getIssuer"
    /\ mcall[p].phase \in {"returned", "thrown"}
    /\ IF mcall[p].phase = "thrown"
       THEN /\ Finish(p, Thrown(mcall[p].err))
            /\ mcall' = [mcall EXCEPT ![p] = NoCall]
            /\ UNCHANGED <<loc, log>>
       ELSE LET begin == GetSigningKeysBegin(_signingKeys)
            IN  /\ loc' = [loc EXCEPT ![p].issuer = Val(mcall[p].prop), ![p].attempt = 1]
                /\ mcall' = [mcall EXCEPT ![p] = begin.call]
                /\ log' = [log EXCEPT ![p] = @ \o <<"getSigningKeys">> \o begin.events]
                /\ pc' = [pc EXCEPT ![p] = "getSigningKeyForJwt:getSigningKeys"]
                /\ UNCHANGED result
    /\ UNCHANGED <<msVars, args, resp>>

\* _getSigningKeyForJwt resumes with the keys and selects the key
GetSigningKeyForJwt_Keys(p) ==
    /\ pc[p] = "getSigningKeyForJwt:getSigningKeys"
    /\ mcall[p].phase \in {"returned", "thrown"}
    /\ mcall' = [mcall EXCEPT ![p] = NoCall]
    /\ IF mcall[p].phase = "thrown"
       THEN /\ Finish(p, Thrown(mcall[p].err))
            /\ UNCHANGED <<loc, log>>
       ELSE IF mcall[p].keys = Null
       THEN /\ Finish(p, Thrown("No signing keys from metadata"))
            /\ UNCHANGED <<loc, log>>
       ELSE LET key == _getSigningKeyForJwt(Val(mcall[p].keys), Val(loc[p].jwt).header)
            IN  /\ loc' = [loc EXCEPT ![p].keys = mcall[p].keys, ![p].key = key]
                /\ log' = [log EXCEPT ![p] =
                             Append(@, IF key = Null THEN "resolve:null" ELSE "resolve:key")]
                /\ pc' = [pc EXCEPT ![p] = IF loc[p].attempt = 1
                                           THEN "getSigningKeyForJwtWithSingleRetry"
                                           ELSE "validateIdToken:key"]
                /\ UNCHANGED result
    /\ UNCHANGED <<msVars, args, resp>>

\* _getSigningKeyForJwtWithSingleRetry refreshing the keys whatever the first key
GetSigningKeyForJwtWithSingleRetry_Always(p) ==
    /\ pc[p] = "getSigningKeyForJwtWithSingleRetry"
    /\ LET begin == GetSigningKeysBegin(Null)
       IN  /\ _signingKeys' = Null
           /\ loc' = [loc EXCEPT ![p].attempt = 2]
           /\ mcall' = [mcall EXCEPT ![p] = begin.call]
           /\ log' = [log EXCEPT ![p] =
                        @ \o <<"resetSigningKeys", "getSigningKeys">> \o begin.events]
           /\ pc' = [pc EXCEPT ![p] = "getSigningKeyForJwt:getSigningKeys"]
    /\ UNCHANGED <<provider, settings, _metadataUrl, _metadata, args, resp, result>>

\* _getSigningKeyForJwtWithSingleRetry whose retry reads the key cache as it
\* was before the reset
GetSigningKeyForJwtWithSingleRetry_CheckBeforeReset(p) ==
    /\ pc[p] = "getSigningKeyForJwtWithSingleRetry"
    /\ IF loc[p].key # Null
       THEN /\ pc' = [pc EXCEPT ![p] = "validateIdToken:key"]
            /\ UNCHANGED <<_signingKeys, loc, mcall, log>>
       ELSE LET begin == GetSigningKeysBegin(_signingKeys)
            IN  /\ _signingKeys' = Null
                /\ loc' = [loc EXCEPT ![p].attempt = 2]
                /\ mcall' = [mcall EXCEPT ![p] = begin.call]
                /\ log' = [log EXCEPT ![p] =
                             @ \o <<"resetSigningKeys", "getSigningKeys">> \o begin.events]
                /\ pc' = [pc EXCEPT ![p] = "getSigningKeyForJwt:getSigningKeys"]
    /\ UNCHANGED <<provider, settings, _metadataUrl, _metadata, args, resp, result>>

\* _getSigningKeyForJwtWithSingleRetry resumes with the first key: return it, or
\* reset the key cache and call _getSigningKeyForJwt once more
GetSigningKeyForJwtWithSingleRetry(p) ==
    /\ pc[p] = "getSigningKeyForJwtWithSingleRetry"
    /\ IF loc[p].key # Null
       THEN /\ pc' = [pc EXCEPT ![p] = "validateIdToken:key"]
            /\ UNCHANGED <<_signingKeys, loc, mcall, log>>
       ELSE LET begin == GetSigningKeysBegin(Null)
            IN  /\ _signingKeys' = Null
                /\ loc' = [loc EXCEPT ![p].attempt = 2]
                /\ mcall' = [mcall EXCEPT ![p] = begin.call]
                /\ log' = [log EXCEPT ![p] =
                             @ \o <<"resetSigningKeys", "getSigningKeys">> \o begin.events]
                /\ pc' = [pc EXCEPT ![p] = "getSigningKeyForJwt:getSigningKeys"]
    /\ UNCHANGED <<provider, settings, _metadataUrl, _metadata, args, resp, result>>

\* _validateIdToken without the call of validateJwt
ValidateIdToken_Key_NoSignature(p) ==
    /\ pc[p] = "validateIdToken:key"
    /\ LET payload == Val(loc[p].jwt).payload
       IN  IF loc[p].key = Null
           THEN /\ Finish(p, Thrown("No key matching kid or alg found in signing keys"))
                /\ UNCHANGED <<resp, log>>
           ELSE IF ~Truthy(Get(payload, "sub"))
           THEN /\ Finish(p, Thrown("No sub present in id_token"))
                /\ UNCHANGED <<resp, log>>
           ELSE /\ resp' = [resp EXCEPT ![p].profile = Some(payload)]
                /\ log' = [log EXCEPT ![p] = @ \o <<"validateJwt", "validateIdToken:ok">>]
                /\ pc' = [pc EXCEPT ![p] = IF loc[p].withAccessToken
                                           THEN "validateAccessToken"
                                           ELSE "processClaims"]
                /\ UNCHANGED result
    /\ UNCHANGED <<msVars, args, loc, mcall>>

\* _validateIdToken resumes with the key: signature and attribute validation
ValidateIdToken_Key(p) ==
    /\ pc[p] = "validateIdToken:key"
    /\ LET state   == args[p].state
           payload == Val(loc[p].jwt).payload
       IN  IF loc[p].key = Null
           THEN /\ Finish(p, Thrown("No key matching kid or alg found in signing keys"))
                /\ UNCHANGED <<resp, log>>
           ELSE IF ~validateJwt(resp[p].id_token, Val(loc[p].key), loc[p].issuer,
                                state.client_id, settings.clockSkewInSeconds)
           THEN /\ Finish(p, Thrown("JWT validation failed"))
                /\ log' = [log EXCEPT ![p] = Append(@, "validateJwt")]
                /\ UNCHANGED resp
           ELSE IF ~Truthy(Get(payload, "sub"))
           THEN /\ Finish(p, Thrown("No sub present in id_token"))
                /\ log' = [log EXCEPT ![p] = Append(@, "validateJwt")]
                /\ UNCHANGED resp
           ELSE /\ resp' = [resp EXCEPT ![p].profile = Some(payload)]
                /\ log' = [log EXCEPT ![p] = @ \o <<"validateJwt", "validateIdToken:ok">>]
                /\ pc' = [pc EXCEPT ![p] = IF loc[p].withAccessToken
                                           THEN "validateAccessToken"
                                           ELSE "processClaims"]
                /\ UNCHANGED result
    /\ UNCHANGED <<msVars, args, loc, mcall>>

\* _validateAccessToken without the test of the length of alg
_validateAccessToken_NoLengthCheck(response, access_token) ==
    LET profile  == Val(response.profile)
        jwt      == parseJwt(response.id_token)
        hashAlg  == Val(jwt).header.alg
        hashBitsString == Substr(hashAlg, 2, 3)
        hashBits == ParseInt(hashBitsString)
        sha      == "sha" \o ToString(Val(hashBits))
        hash     == hashString(access_token, sha)
        left     == Substr(hash, 0, Len(hash) \div 2)
        left_b64u == hexToBase64Url(left)
    IN  IF response.profile = Null
        THEN Thrown("No profile loaded from id_token")
        ELSE IF ~Truthy(Get(profile, "at_hash"))
        THEN Thrown("No at_hash in id_token")
        ELSE IF response.id_token = ""
        THEN Thrown("No id_token")
        ELSE IF jwt = Null
        THEN Thrown("Failed to parse id_token")
        ELSE IF hashBitsString = ""
        THEN Thrown("Unsupported alg: " \o hashAlg)
        ELSE IF hashBits \notin {Some(256), Some(384), Some(512)}
        THEN Thrown("Unsupported alg: " \o hashAlg)
        ELSE IF hash = ""
        THEN Thrown("Failed to validate at_hash")
        ELSE IF ~IsStr(Get(profile, "at_hash"), left_b64u)
        THEN Thrown("Failed to validate at_hash")
        ELSE Returned

\* _validateAccessToken(response, access_token): the outcome
_validateAccessToken(response, access_token) ==
    LET profile  == Val(response.profile)
        jwt      == parseJwt(response.id_token)
        hashAlg  == Val(jwt).header.alg
        hashBitsString == Substr(hashAlg, 2, 3)
        hashBits == ParseInt(hashBitsString)
        sha      == "sha" \o ToString(Val(hashBits))
        hash     == hashString(access_token, sha)
        left     == Substr(hash, 0, Len(hash) \div 2)
        left_b64u == hexToBase64Url(left)
    IN  IF response.profile = Null
        THEN Thrown("No profile loaded from id_token")
        ELSE IF ~Truthy(Get(profile, "at_hash"))
        THEN Thrown("No at_hash in id_token")
        ELSE IF response.id_token = ""
        THEN Thrown("No id_token")
        ELSE IF jwt = Null
        THEN Thrown("Failed to parse id_token")
        ELSE IF hashAlg = "" \/ Len(hashAlg) # 5
        THEN Thrown("Unsupported alg: " \o hashAlg)
        ELSE IF hashBitsString = ""
        THEN Thrown("Unsupported alg: " \o hashAlg)
        ELSE IF hashBits \notin {Some(256), Some(384), Some(512)}
        THEN Thrown("Unsupported alg: " \o hashAlg)
        ELSE IF hash = ""
        THEN Thrown("Failed to validate at_hash")
        ELSE IF ~IsStr(Get(profile, "at_hash"), left_b64u)
        THEN Thrown("Failed to validate at_hash")
        ELSE Returned

\* _validateTokens resumes with the validated id_token and validates the
\* access token against at_hash
ValidateAccessToken(p) ==
    /\ pc[p] = "validateAccessToken"
    /\ LET res == _validateAccessToken(resp[p], loc[p].access_token)
       IN  /\ log' = [log EXCEPT ![p] = Append(@, "validateAccessToken")]
           /\ IF res.status = "failed"
              THEN Finish(p, res)
              ELSE /\ pc' = [pc EXCEPT ![p] = "processClaims"]
                   /\ UNCHANGED result
    /\ UNCHANGED <<msVars, args, resp, loc, mcall>>

-----------------------------------------------------------------------------
(* Code exchange and id-token validation by attributes (code callbacks) *)

\* what TokenClient.exchangeCode may return
TokenResponse(error, id_token, access_token, scope, expires_in) ==
    [ error             |-> error,
      error_description |-> IF error = "" THEN "" ELSE "code expired",
      error_uri         |-> "",
      id_token          |-> id_token,
      session_state     |-> IF error = "" THEN "sess2" ELSE "",
      access_token      |-> access_token,
      token_type        |-> IF access_token = "" THEN "" ELSE "Bearer",
      scope             |-> scope,
      expires_in        |-> expires_in ]

TokenResponses ==
    { TokenResponse("", it, "at1", "openid", "3600") :
        it \in {"", "idt_ok", "idt_forged", "idt_badnonce", "idt_nononce",
                "idt_nosub", "idt_expired", "idt_badiss", "idt_garbage"} }
    \cup { TokenResponse("", "idt_ok", "", "", "0"),
           TokenResponse("", "", "", "", ""),
           TokenResponse("invalid_grant", "", "", "", "") }

\* a || b for strings
OrElse(a, b) == IF a # "" THEN a ELSE b

\* _processCode: the "merge" of the token response into the response
FoldTokenResponse(response, tokenResponse) ==
    LET parsed == ParseInt(tokenResponse.expires_in)
    IN  [ response EXCEPT
            !.error             = OrElse(tokenResponse.error, @),
            !.error_description = OrElse(tokenResponse.error_description, @),
            !.error_uri         = OrElse(tokenResponse.error_uri, @),
            !.id_token          = OrElse(tokenResponse.id_token, @),
            !.session_state     = OrElse(tokenResponse.session_state, @),
            !.access_token      = OrElse(tokenResponse.access_token, @),
            !.token_type        = OrElse(tokenResponse.token_type, @),
            !.scope             = OrElse(tokenResponse.scope, @),
            !.expires_in        = IF parsed # Null /\ parsed # Some(0) THEN parsed ELSE @ ]

\* _processCode resumes with the outcome of exchangeCode; with an id_token it
\* calls _validateIdTokenAttributes, which calls getIssuer
ProcessCode_Exchanged(p) ==
    /\ pc[p] = "processCode:exchangeCode"
    /\ \/ /\ Finish(p, Thrown(ErrNetwork))
          /\ log' = [log EXCEPT ![p] = Append(@, "exchangeCode:failed")]
          /\ UNCHANGED <<resp, mcall, loc>>
       \/ \E tokenResponse \in TokenResponses :
            LET r == FoldTokenResponse(resp[p], tokenResponse)
            IN  /\ resp' = [resp EXCEPT ![p] = r]
                /\ loc' = [loc EXCEPT ![p].tokenResponse = Some(tokenResponse)]
                /\ IF r.id_token # ""
                   THEN /\ mcall' = [mcall EXCEPT ![p] = GetIssuerBegin.call]
                        /\ log' = [log EXCEPT ![p] =
                                     Append(@, "exchangeCode:returned") \o GetIssuerBegin.events]
                        /\ pc' = [pc EXCEPT ![p] = "validateIdTokenAttributes:getIssuer"]
                        /\ UNCHANGED result
                   ELSE /\ log' = [log EXCEPT ![p] = Append(@, "exchangeCode:returned")]
                        /\ pc' = [pc EXCEPT ![p] = "processClaims"]
                        /\ UNCHANGED <<mcall, result>>
    /\ UNCHANGED <<msVars, args>>

\* _validateIdTokenAttributes without the comparison of the nonce
ValidateIdTokenAttributes_Issuer_NoNonceCheck(p) ==
    /\ pc[p] = "validateIdTokenAttributes:getIssuer"
    /\ mcall[p].phase \in {"returned", "thrown"}
    /\ mcall' = [mcall EXCEPT ![p] = NoCall]
    /\ IF mcall[p].phase = "thrown"
       THEN /\ Finish(p, Thrown(mcall[p].err))
            /\ UNCHANGED <<resp, loc, log>>
       ELSE LET state   == args[p].state
                issuer  == Val(mcall[p].prop)
                payload == validateJwtAttributes(resp[p].id_token, issuer, state.client_id,
                                                 settings.clockSkewInSeconds, Now)
            IN  /\ loc' = [loc EXCEPT ![p].issuer = issuer]
                /\ log' = [log EXCEPT ![p] = Append(@, "validateJwtAttributes")]
                /\ IF payload = Null
                   THEN /\ Finish(p, Thrown("JWT attributes validation failed"))
                        /\ UNCHANGED resp
                   ELSE IF ~Truthy(Get(Val(payload), "sub"))
                   THEN /\ Finish(p, Thrown("No sub present in id_token"))
                        /\ UNCHANGED resp
                   ELSE /\ resp' = [resp EXCEPT ![p].profile = payload]
                        /\ pc' = [pc EXCEPT ![p] = "processClaims"]
                        /\ UNCHANGED result
    /\ UNCHANGED <<msVars, args>>

\* _validateIdTokenAttributes resumes with the issuer
ValidateIdTokenAttributes_Issuer(p) ==
    /\ pc[p] = "validateIdTokenAttributes:getIssuer"
    /\ mcall[p].phase \in {"returned", "thrown"}
    /\ mcall' = [mcall EXCEPT ![p] = NoCall]
    /\ IF mcall[p].phase = "thrown"
       THEN /\ Finish(p, Thrown(mcall[p].err))
            /\ UNCHANGED <<resp, loc, log>>
       ELSE LET state   == args[p].state
                issuer  == Val(mcall[p].prop)
                payload == validateJwtAttributes(resp[p].id_token, issuer, state.client_id,
                                                 settings.clockSkewInSeconds, Now)
            IN  /\ loc' = [loc EXCEPT ![p].issuer = issuer]
                /\ log' = [log EXCEPT ![p] = Append(@, "validateJwtAttributes")]
                /\ IF payload = Null
                   THEN /\ Finish(p, Thrown("JWT attributes validation failed"))
                        /\ UNCHANGED resp
                   ELSE IF state.nonce # "" /\ ~IsStr(Get(Val(payload), "nonce"), state.nonce)
                   THEN /\ Finish(p, Thrown("Invalid nonce in id_token"))
                        /\ UNCHANGED resp
                   ELSE IF ~Truthy(Get(Val(payload), "sub"))
                   THEN /\ Finish(p, Thrown("No sub present in id_token"))
                        /\ UNCHANGED resp
                   ELSE /\ resp' = [resp EXCEPT ![p].profile = payload]
                        /\ pc' = [pc EXCEPT ![p] = "processClaims"]
                        /\ UNCHANGED result
    /\ UNCHANGED <<msVars, args>>

-----------------------------------------------------------------------------
(* Claims processing *)

ProtocolClaims == {"nonce", "at_hash", "iat", "nbf", "exp", "aud", "iss", "c_hash"}

\* a === b for claim values: primitives by value, objects and arrays by identity
\* (two values that come from different documents are never the same object)
StrictEq(a, b) ==
    \/ a.k = "u" /\ b.k = "u"
    \/ a.k \in {"s", "n"} /\ a.k = b.k /\ a.v = b.v

\* array.indexOf(value) >= 0
Includes(array, value) == \E i \in 1..Len(array) : StrictEq(array[i], value)

\* the own enumerable properties of a value, as Object.assign and for-in see them
IndexKey(i) == ToString(i - 1)

AsObject(x) ==
    CASE x.k = "o" -> x.v
      [] x.k = "a" -> [n \in {IndexKey(i) : i \in 1..Len(x.v)} |->
                         x.v[CHOOSE i \in 1..Len(x.v) : IndexKey(i) = n]]
      [] x.k = "s" -> [n \in {IndexKey(i) : i \in 1..Len(x.v)} |->
                         S(CharAt(x.v, CHOOSE i \in 1..Len(x.v) : IndexKey(i) = n))]
      [] OTHER     -> EmptyObject

RECURSIVE _mergeClaims(_, _, _)
RECURSIVE MergeValues(_, _, _)

\* _mergeClaims, loop body: one value of claims2[name] merged into result[name]
MergeValue(cur, value, deep) ==
    IF ~Truthy(cur) THEN value
    ELSE IF cur.k = "a"
    THEN (IF Includes(cur.v, value) THEN cur ELSE A(Append(cur.v, value)))
    ELSE IF ~StrictEq(cur, value)
    THEN (IF value.k \in {"o", "a"} /\ deep
          THEN O(_mergeClaims(AsObject(cur), AsObject(value), deep))
          ELSE A(<<cur, value>>))
    ELSE cur

\* _mergeClaims, inner loop over the values of one claim
MergeValues(cur, values, deep) ==
    IF values = << >> THEN cur
    ELSE MergeValues(MergeValue(cur, Head(values), deep), Tail(values), deep)

\* _mergeClaims(claims1, claims2) with settings.mergeClaims = deep
_mergeClaims(claims1, claims2, deep) ==
    [ name \in (DOMAIN claims1) \cup {n \in DOMAIN claims2 :
                                        claims2[n].k # "a" \/ claims2[n].v # << >>} |->
        IF name \notin DOMAIN claims2 THEN claims1[name]
        ELSE MergeValues(Get(claims1, name),
                         IF claims2[name].k = "a" THEN claims2[name].v ELSE <<claims2[name]>>,
                         deep) ]

\* _filterProtocolClaims(claims); claims may be undefined
_filterProtocolClaims(claims) ==
    LET copy == IF claims = Null THEN EmptyObject ELSE Val(claims)
    IN  IF settings.filterProtocolClaims THEN Without(copy, ProtocolClaims) ELSE copy

\* scope.split(" ").includes("openid")
HasOpenIdScope(scope) == scope \in {"openid", "openid api", "api openid"}

\* SigninResponse.isOpenIdConnect
isOpenIdConnect(response) == HasOpenIdScope(response.scope) \/ response.id_token # ""

\* what UserInfoService.getClaims may return
UserInfoClaims ==
    { [sub |-> S("abc"), name |-> S("Ann"), email |-> S("ann@example")],
      [sub |-> S("abc"), name |-> S("Annie")],
      [sub |-> S("abc"), aud |-> S("c1"), iss |-> S(Authority)],
      [sub |-> S("xyz"), name |-> S("Eve")],
      [name |-> S("Nobody")] }

\* _processClaims loading user info although state.skipUserInfo is true
ProcessClaims_IgnoreSkip(p) ==
    /\ pc[p] = "processClaims"
    /\ IF isOpenIdConnect(resp[p])
       THEN /\ resp' = [resp EXCEPT ![p].profile = Some(_filterProtocolClaims(@))]
            /\ IF /\ settings.loadUserInfo
                  /\ resp[p].access_token # ""
               THEN /\ log' = [log EXCEPT ![p] = Append(@, "getClaims")]
                    /\ pc' = [pc EXCEPT ![p] = "processClaims:getClaims"]
                    /\ UNCHANGED result
               ELSE /\ Finish(p, Returned)
                    /\ UNCHANGED log
       ELSE /\ Finish(p, Returned)
            /\ UNCHANGED <<resp, log>>
    /\ UNCHANGED <<msVars, args, loc, mcall>>

\* _processClaims up to its first suspension
ProcessClaims(p) ==
    /\ pc[p] = "processClaims"
    /\ IF isOpenIdConnect(resp[p])
       THEN /\ resp' = [resp EXCEPT ![p].profile = Some(_filterProtocolClaims(@))]
            /\ IF /\ args[p].state.skipUserInfo # TRUE
                  /\ settings.loadUserInfo
                  /\ resp[p].access_token # ""
               THEN /\ log' = [log EXCEPT ![p] = Append(@, "getClaims")]
                    /\ pc' = [pc EXCEPT ![p] = "processClaims:getClaims"]
                    /\ UNCHANGED result
               ELSE /\ Finish(p, Returned)
                    /\ UNCHANGED log
       ELSE /\ Finish(p, Returned)
            /\ UNCHANGED <<resp, log>>
    /\ UNCHANGED <<msVars, args, loc, mcall>>

\* _processClaims merging the user-info claims without comparing sub
ProcessClaims_Claims_NoSubCheck(p) ==
    /\ pc[p] = "processClaims:getClaims"
    /\ \/ /\ Finish(p, Thrown(ErrNetwork))
          /\ log' = [log EXCEPT ![p] = Append(@, "getClaims:failed")]
          /\ UNCHANGED resp
       \/ /\ log' = [log EXCEPT ![p] = Append(@, "getClaims:returned")]
          /\ \E claims \in UserInfoClaims :
               /\ resp' = [resp EXCEPT ![p].profile =
                              Some(_mergeClaims(Val(@), claims, settings.mergeClaims))]
               /\ Finish(p, Returned)
    /\ UNCHANGED <<msVars, args, loc, mcall>>

\* _processClaims resumes with the outcome of getClaims
ProcessClaims_Claims(p) ==
    /\ pc[p] = "processClaims:getClaims"
    /\ \/ /\ Finish(p, Thrown(ErrNetwork))
          /\ log' = [log EXCEPT ![p] = Append(@, "getClaims:failed")]
          /\ UNCHANGED resp
       \/ /\ log' = [log EXCEPT ![p] = Append(@, "getClaims:returned")]
          /\ \E claims \in UserInfoClaims :
               IF ~StrictEq(Get(claims, "sub"), Get(Val(resp[p].profile), "sub"))
               THEN /\ Finish(p, Thrown("sub from user info endpoint does not match sub in id_token"))
                    /\ UNCHANGED resp
               ELSE /\ resp' = [resp EXCEPT ![p].profile =
                                  Some(_mergeClaims(Val(@), claims, settings.mergeClaims))]
                    /\ Finish(p, Returned)
    /\ UNCHANGED <<msVars, args, loc, mcall>>

-----------------------------------------------------------------------------
(* Specification: one validateSigninResponse invocation on a fresh validator *)

Step(p) ==
    \/ Start(p)
    \/ ProcessSigninParams(p)
    \/ ValidateTokens(p)
    \/ ValidateIdToken_Issuer(p)
    \/ GetSigningKeyForJwt_Keys(p)
    \/ GetSigningKeyForJwtWithSingleRetry(p)
    \/ ValidateIdToken_Key(p)
    \/ ValidateAccessToken(p)
    \/ ProcessCode_Exchanged(p)
    \/ ValidateIdTokenAttributes_Issuer(p)
    \/ ProcessClaims(p)
    \/ ProcessClaims_Claims(p)
    \/ MS_MetadataFetched(p)
    \/ MS_GetMetadataProperty(p)
    \/ MS_KeysFetched(p)

Next == \E p \in Procs : Step(p)

Spec == Init /\ [][Next]_vars

-----------------------------------------------------------------------------
(* Direct callers of one MetadataService instance                            *)
(*                                                                           *)
(* A caller in "ms:ready" makes up to MaxCalls calls, one after the other;   *)
(* a caller in "ms:racer" makes one call.  Callers run concurrently: the     *)
(* steps of their calls interleave at the awaits.                            *)

MaxCalls == 3

MetadataUrl == "https://idp.example/meta"

\* a metadata document with a single property
SparseMetadata == [token_endpoint |-> "token"]

\* settings.metadataSeed
MetadataSeed == [issuer |-> "seedIss", seeded |-> "yes"]

MSConfig(authority, metadataUrl, metadata, signingKeys, metadataSeed) ==
    [ authority            |-> authority,
      metadataUrl          |-> metadataUrl,
      metadata             |-> metadata,
      signingKeys          |-> signingKeys,
      metadataSeed         |-> metadataSeed,
      client_id            |-> "c1",
      clockSkewInSeconds   |-> 300,
      filterProtocolClaims |-> FALSE,
      loadUserInfo         |-> FALSE,
      mergeClaims          |-> FALSE ]

\* OidcClientSettingsStore as a MetadataService may be configured
MSSettings ==
    { MSConfig(Authority, "", Null, Null, Null),
      MSConfig(Authority \o "/", "", Null, Null, Null),
      MSConfig(Authority, MetadataUrl, Null, Null, Null),
      MSConfig("", MetadataUrl, Null, Null, Some(MetadataSeed)),
      MSConfig("", "", Null, Null, Null),
      MSConfig("", "", Null, Some(<<KeyOld>>), Null),
      MSConfig(Authority, "", Some(FullMetadata), Null, Null),
      MSConfig(Authority, MetadataUrl, Some(SparseMetadata), Null, Null),
      MSConfig("", "", Some(FullMetadata), Some(<<KeyOld>>), Null),
      MSConfig("", "", Some(SparseMetadata), Null, Null),
      MSConfig(Authority, "", Null, Some(<<KeyOld>>), Null) }

\* the configurations of the instance the racers share
RaceSettings ==
    { MSConfig(Authority, "", Null, Null, Null),
      MSConfig("", MetadataUrl, Null, Null, Some(MetadataSeed)),
      MSConfig(Authority, "", Some(FullMetadata), Null, Null),
      MSConfig(Authority, "", Null, Some(<<KeyOld>>), Null) }

\* a provider that serves the same documents throughout (a fetch may still fail)
StableProviders ==
    { [ metadata |-> {[ok |-> TRUE, doc |-> d], [ok |-> FALSE, doc |-> EmptyObject]},
        keys     |-> {[ok |-> TRUE, keys |-> k], [ok |-> FALSE, keys |-> Null]} ] :
      d \in MetadataDocs, k \in {Some(<<KeyOld>>), Some(<<KeyOld, KeyNew>>), Null} }

\* an endpoint accessor: the property it reads and whether it is optional
Accessor(op, name, optional) == [op |-> op, name |-> name, optional |-> optional]

Accessors ==
    { Accessor("getIssuer", "issuer", FALSE),
      Accessor("getAuthorizationEndpoint", "authorization_endpoint", FALSE),
      Accessor("getUserInfoEndpoint", "userinfo_endpoint", FALSE),
      Accessor("getCheckSessionIframe", "check_session_iframe", TRUE),
      Accessor("getEndSessionEndpoint", "end_session_endpoint", TRUE),
      Accessor("getRevocationEndpoint", "revocation_endpoint", TRUE) }
    \cup {Accessor("getTokenEndpoint", "token_endpoint", o) : o \in BOOLEAN}
    \cup {Accessor("getKeysEndpoint", "jwks_uri", o) : o \in BOOLEAN}

\* the accessors the racers call
RaceAccessors ==
    {Accessor("getIssuer", "issuer", FALSE), Accessor("getKeysEndpoint", "jwks_uri", TRUE)}

\* the log entries that stand for a call of the caller
CallEvents == {"getMetadata", "accessor", "getSigningKeys", "resetSigningKeys"}

\* the number of calls caller p has made
Calls(p) == Cardinality({i \in 1..Len(log[p]) : log[p][i] \in CallEvents})

\* caller p may make a call
CanCall(p) ==
    \/ pc[p] = "ms:ready" /\ Calls(p) < MaxCalls
    \/ pc[p] = "ms:racer" /\ Calls(p) = 0

\* caller p is suspended on the promise of its call
Awaiting(p) == pc[p] \in {"ms:await", "ms:racing"}

\* the caller suspends on the promise of the call it made
MS_Suspend(p, begin, event) ==
    /\ mcall' = [mcall EXCEPT ![p] = begin.call]
    /\ log' = [log EXCEPT ![p] = @ \o <<event>> \o begin.events]
    /\ pc' = [pc EXCEPT ![p] = IF pc[p] = "ms:racer" THEN "ms:racing" ELSE "ms:await"]
    /\ UNCHANGED <<msVars, args, resp, loc, result>>

\* the value a MetadataService call resolved with
MSReturned(op, value) == [status |-> "returned", kind |-> op, error |-> "", payload |-> value]

\* the caller calls getMetadata()
MS_CallGetMetadata(p) ==
    /\ CanCall(p)
    /\ MS_Suspend(p, GetMetadataBegin("getMetadata", "", FALSE), "getMetadata")

\* the caller calls an endpoint accessor
MS_CallAccessor(p) ==
    /\ CanCall(p)
    /\ \E a \in (IF pc[p] = "ms:racer" THEN RaceAccessors ELSE Accessors) :
         MS_Suspend(p, GetMetadataBegin(a.op, a.name, a.optional), "accessor")

\* the caller calls getSigningKeys()
MS_CallGetSigningKeys(p) ==
    /\ CanCall(p)
    /\ MS_Suspend(p, GetSigningKeysBegin(_signingKeys), "getSigningKeys")

\* resetSigningKeys keeping the cached keys
MS_CallResetSigningKeys_Keep(p) ==
    /\ pc[p] = "ms:ready"
    /\ Calls(p) < MaxCalls
    /\ log' = [log EXCEPT ![p] = Append(@, "resetSigningKeys")]
    /\ result' = [result EXCEPT ![p] = MSReturned("resetSigningKeys", Null)]
    /\ UNCHANGED <<msVars, pc, args, resp, loc, mcall>>

\* the caller calls resetSigningKeys()
MS_CallResetSigningKeys(p) ==
    /\ pc[p] = "ms:ready"
    /\ Calls(p) < MaxCalls
    /\ _signingKeys' = Null
    /\ log' = [log EXCEPT ![p] = Append(@, "resetSigningKeys")]
    /\ result' = [result EXCEPT ![p] = MSReturned("resetSigningKeys", Null)]
    /\ UNCHANGED <<provider, settings, _metadataUrl, _metadata, pc, args, resp, loc, mcall>>

\* the promise of the call settles and the caller resumes
MS_Return(p) ==
    /\ Awaiting(p)
    /\ LET c == mcall[p]
       IN  /\ \/ c.phase \in {"returned", "thrown"}
              \/ c.op = "getMetadata" /\ c.phase = "have_metadata"
           /\ result' = [result EXCEPT ![p] =
                  IF c.phase = "thrown" THEN Thrown(c.err)
                  ELSE MSReturned(c.op, IF c.op = "getMetadata" THEN c.md
                                        ELSE IF c.op = "getSigningKeys" THEN c.keys
                                        ELSE c.prop)]
           /\ log' = [log EXCEPT ![p] =
                  Append(@, IF c.phase = "thrown" THEN "thrown" ELSE "returned")]
    /\ mcall' = [mcall EXCEPT ![p] = NoCall]
    /\ pc' = [pc EXCEPT ![p] = IF pc[p] = "ms:racing" THEN "ms:done" ELSE "ms:ready"]
    /\ UNCHANGED <<msVars, args, resp, loc>>

\* one caller, calling any operation, on a provider whose documents may change
MSInit ==
    /\ provider = AnyProvider
    /\ \E cfg \in MSSettings : MetadataServiceInit(cfg)
    /\ pc = [p \in Procs |-> IF p = 1 THEN "ms:ready" ELSE "off"]
    /\ args = [p \in Procs |-> NoArgs]
    /\ resp = [p \in Procs |-> NoArgs.response]
    /\ loc = [p \in Procs |-> NoLocals]
    /\ mcall = [p \in Procs |-> NoCall]
    /\ result = [p \in Procs |-> NoResult]
    /\ log = [p \in Procs |-> << >>]

MSStep(p) ==
    \/ MS_CallGetMetadata(p)
    \/ MS_CallAccessor(p)
    \/ MS_CallGetSigningKeys(p)
    \/ MS_CallResetSigningKeys(p)
    \/ MS_Return(p)
    \/ MS_MetadataFetched(p)
    \/ MS_GetMetadataProperty(p)
    \/ MS_KeysFetched(p)

MSNext == \E p \in Procs : MSStep(p)

MSSpec == MSInit /\ [][MSNext]_vars

\* every caller makes one call on the shared instance, on a stable provider
MSRaceInit ==
    /\ provider \in StableProviders
    /\ \E cfg \in RaceSettings : MetadataServiceInit(cfg)
    /\ pc = [p \in Procs |-> "ms:racer"]
    /\ args = [p \in Procs |-> NoArgs]
    /\ resp = [p \in Procs |-> NoArgs.response]
    /\ loc = [p \in Procs |-> NoLocals]
    /\ mcall = [p \in Procs |-> NoCall]
    /\ result = [p \in Procs |-> NoResult]
    /\ log = [p \in Procs |-> << >>]

MSRaceStep(p) ==
    \/ MS_CallGetMetadata(p)
    \/ MS_CallAccessor(p)
    \/ MS_CallGetSigningKeys(p)
    \/ MS_Return(p)
    \/ MS_MetadataFetched(p)
    \/ MS_GetMetadataProperty(p)
    \/ MS_KeysFetched(p)

MSRaceNext == \E p \in Procs : MSRaceStep(p)

MSRaceSpec == MSRaceInit /\ [][MSRaceNext]_vars

-----------------------------------------------------------------------------
(* Vocabulary of the properties *)

\* invocation p has been started
Started(p) == pc[p] \notin {"off", "idle"}

\* invocation p has ended
Done(p) == pc[p] = "done"

Failed(p) == Done(p) /\ result[p].status = "failed"

ReturnedOk(p) == Done(p) /\ result[p].status = "returned"

\* e occurs in the log
Occurs(events, e) == \E i \in 1..Len(events) : events[i] = e

\* how often e occurs in the log
Count(events, e) == Cardinality({i \in 1..Len(events) : events[i] = e})

\* every occurrence of e is preceded by an occurrence of d
Precedes(events, d, e) ==
    \A i \in 1..Len(events) : events[i] = e => \E j \in 1..(i - 1) : events[j] = d

\* the requests that go over the network
NetworkCalls == {"getJson:metadata", "getJson:jwks", "exchangeCode", "getClaims"}

NoNetworkCall(p) == \A i \in 1..Len(log[p]) : log[p][i] \notin NetworkCalls

\* the request state passes the checks that precede the copy of state.data
StateAccepted(p) ==
    /\ args[p].response.state = args[p].state.id
    /\ args[p].state.client_id # ""
    /\ args[p].state.authority # ""
    /\ settings.authority = args[p].state.authority
    /\ settings.client_id # "" => settings.client_id = args[p].state.client_id

-----------------------------------------------------------------------------
(* C1 *)

\* C1: a validateSigninResponse call whose response.state differs from state.id
\* fails with the state-mismatch error, and it has issued no network call
\* (metadata fetch, key-set fetch, token exchange, user-info fetch) at any point.
C1_StateMismatchFailsBeforeNetwork ==
    \A p \in Procs :
        (Started(p) /\ args[p].response.state # args[p].state.id) =>
            /\ NoNetworkCall(p)
            /\ pc[p] \in {"processSigninParams", "done"}
            /\ Done(p) => result[p] = Thrown("State does not match")

C1_Witness ==
    \E p \in Procs :
        /\ Done(p)
        /\ args[p].response.state # args[p].state.id
        /\ result[p].error = "State does not match"

-----------------------------------------------------------------------------
(* C2 *)

\* C2 as claimed: every call whose correlation id matches on entry and that
\* ends in a failure has response.state equal to state.data when it fails.
C2_Original ==
    \A p \in Procs :
        (Failed(p) /\ args[p].response.state = args[p].state.id) =>
            resp[p].state = args[p].state.data

\* C2 amended: once the request state has passed the checks on id, client_id
\* and authority, response.state equals state.data from then on, so it does at
\* every failure raised after these checks; a call rejected by one of these
\* checks leaves response.state as it was received.
C2_DataCopiedBeforeLaterFailures ==
    \A p \in Procs :
        /\ (Started(p) /\ pc[p] # "processSigninParams" /\ StateAccepted(p)) =>
               resp[p].state = args[p].state.data
        /\ (Failed(p) /\ ~StateAccepted(p)) =>
               resp[p].state = args[p].response.state

C2_Witness ==
    \E p \in Procs :
        /\ Failed(p)
        /\ StateAccepted(p)
        /\ result[p].error = "Invalid nonce in id_token"
        /\ resp[p].state = args[p].state.data

-----------------------------------------------------------------------------
(* C3 *)

\* C3 as claimed: when the callback whose state matches state.id carries a
\* non-empty error, the call fails with an ErrorResponse that carries
\* state.data, and no collaborator is called.
C3_Original ==
    \A p \in Procs :
        (Done(p) /\ args[p].response.state = args[p].state.id
                 /\ args[p].response.error # "") =>
            /\ result[p].kind = "ErrorResponse"
            /\ Val(result[p].payload).state = args[p].state.data
            /\ log[p] = << >>

\* C3 amended: when the request state passes the checks on id, client_id and
\* authority and the callback carries a non-empty error, the call stops in
\* _processSigninParams: it fails with the ErrorResponse built from the
\* response after state.data was copied into response.state, and no
\* collaborator (token exchange, metadata, key set, user info) is called.
C3_ErrorStopsAtStageOne ==
    \A p \in Procs :
        (Started(p) /\ StateAccepted(p) /\ args[p].response.error # "") =>
            /\ pc[p] \in {"processSigninParams", "done"}
            /\ log[p] = << >>
            /\ Done(p) =>
                 /\ result[p].status = "failed"
                 /\ result[p].kind = "ErrorResponse"
                 /\ Val(result[p].payload).error = args[p].response.error
                 /\ Val(result[p].payload).state = args[p].state.data
                 /\ resp[p] = [args[p].response EXCEPT !.state = args[p].state.data]

C3_Witness ==
    \E p \in Procs :
        /\ Done(p)
        /\ StateAccepted(p)
        /\ args[p].response.error # ""
        /\ result[p].kind = "ErrorResponse"

-----------------------------------------------------------------------------
(* C4 *)

\* nonce without id_token, id_token without nonce, code_verifier without code,
\* or code without code_verifier
ParamMismatch(p) ==
    LET state == args[p].state
        response == args[p].response
    IN  \/ state.nonce # "" /\ response.id_token = ""
        \/ state.nonce = "" /\ response.id_token # ""
        \/ state.code_verifier # "" /\ response.code = ""
        \/ state.code_verifier = "" /\ response.code # ""

\* C4: a call with state.nonce set and no id_token, with an id_token and no
\* state.nonce, with state.code_verifier set and no code, or with a code and no
\* state.code_verifier fails, and it fails before the token stage: no token
\* exchange is issued and no id-token validation is started.
C4_ParamMismatchFailsBeforeTokens ==
    \A p \in Procs :
        (Started(p) /\ ParamMismatch(p)) =>
            /\ pc[p] \in {"processSigninParams", "done"}
            /\ log[p] = << >>
            /\ Done(p) => result[p].status = "failed"

C4_Witness ==
    \E p \in Procs :
        /\ Done(p)
        /\ args[p].state.code_verifier = ""
        /\ args[p].response.code # ""
        /\ result[p].error = "Unexpected code in response"

-----------------------------------------------------------------------------
(* C5 *)

\* the positions of the keys with the kid of the header
KeysWithKid(keys, header) == {i \in 1..Len(keys) : keys[i].kid = header.kid}

\* the positions of the keys whose kty is that of the algorithm family
KeysOfFamily(keys, header) ==
    {i \in 1..Len(keys) :
        <<SubSeq(header.alg, 1, 2), keys[i].kty>> \in
            {<<"RS", "RSA">>, <<"PS", "PS">>, <<"ES", "EC">>}}

\* a key resolution of invocation p has just returned
ResolutionReturned(p) ==
    pc[p] \in {"getSigningKeyForJwtWithSingleRetry", "validateIdToken:key"}

\* C5: against the key set a resolution received, a header whose kid matches
\* exactly one key resolves that key; a header without kid resolves the one key
\* of its algorithm family (RS* -> RSA, PS* -> PS, ES* -> EC) when there is
\* exactly one; without kid and with zero or several such keys (or another
\* family) nothing is resolved.  An unresolved first resolution is followed by
\* one cache reset and one more resolution, never more; and when the second is
\* unresolved too the validation fails with the key-resolution error.
C5_KeyResolution ==
    \A p \in Procs :
        /\ ResolutionReturned(p) =>
             LET keys   == Val(loc[p].keys)
                 header == Val(loc[p].jwt).header
                 byKid  == KeysWithKid(keys, header)
                 byAlg  == KeysOfFamily(keys, header)
             IN  /\ (header.kid # "" /\ Cardinality(byKid) = 1) =>
                        loc[p].key = {keys[i] : i \in byKid}
                 /\ (header.kid = "" /\ Cardinality(byAlg) = 1) =>
                        loc[p].key = {keys[i] : i \in byAlg}
                 /\ (header.kid = "" /\ Cardinality(byAlg) # 1) => loc[p].key = Null
        /\ pc[p] = "getSigningKeyForJwtWithSingleRetry" =>
             loc[p].attempt = 1 /\ Count(log[p], "resetSigningKeys") = 0
        /\ (pc[p] = "validateIdToken:key" /\ loc[p].key = Null) =>
             /\ loc[p].attempt = 2
             /\ Count(log[p], "resetSigningKeys") = 1
             /\ Count(log[p], "resolve:null") = 2
        /\ Count(log[p], "resetSigningKeys") <= 1
        /\ (Done(p) /\ log[p] # << >> /\ log[p][Len(log[p])] = "resolve:null") =>
             result[p] = Thrown("No key matching kid or alg found in signing keys")

C5_Witness ==
    \E p \in Procs :
        /\ Failed(p)
        /\ result[p].error = "No key matching kid or alg found in signing keys"
        /\ Val(loc[p].jwt).header.kid = ""
        /\ Cardinality(KeysOfFamily(Val(loc[p].keys), Val(loc[p].jwt).header)) >= 2
        /\ Count(log[p], "resetSigningKeys") = 1

-----------------------------------------------------------------------------
(* C6 *)

FailedCalls ==
    {"getJson:metadata:failed", "getJson:jwks:failed", "exchangeCode:failed", "getClaims:failed"}

\* C6: within one invocation resetSigningKeys is called at most once and only
\* directly after a key resolution that returned no key, getSigningKeys is
\* called at most twice, the token exchange at most once, the user-info fetch
\* at most once, the metadata document is fetched at most once and the key set
\* at most twice; and after a collaborator call failed the invocation makes no
\* further call and ends in failure.
C6_NoRetryButKeyRefresh ==
    \A p \in Procs :
        /\ Count(log[p], "resetSigningKeys") <= 1
        /\ \A i \in 1..Len(log[p]) :
             log[p][i] = "resetSigningKeys" =>
                 /\ i > 1 /\ log[p][i - 1] = "resolve:null"
                 /\ Count(SubSeq(log[p], 1, i), "resolve:null") = 1
                 /\ Count(SubSeq(log[p], 1, i), "resolve:key") = 0
        /\ Count(log[p], "getSigningKeys") <= 2
        /\ Count(log[p], "resolve:null") + Count(log[p], "resolve:key") <= 2
        /\ Count(log[p], "exchangeCode") <= 1
        /\ Count(log[p], "getClaims") <= 1
        /\ Count(log[p], "getJson:metadata") <= 1
        /\ Count(log[p], "getJson:jwks") <= 2
        /\ \A i \in 1..Len(log[p]) :
             log[p][i] \in FailedCalls =>
                 /\ i = Len(log[p])
                 /\ ~ReturnedOk(p)
                 /\ Done(p) \/ mcall[p].phase = "thrown"

C6_Witness ==
    \E p \in Procs :
        /\ Failed(p)
        /\ Count(log[p], "resetSigningKeys") = 1
        /\ Count(log[p], "getJson:jwks") = 2
        /\ log[p][Len(log[p])] = "getJson:jwks:failed"

-----------------------------------------------------------------------------
(* C7 *)

\* the key set resolves a key for the header
Resolvable(keys, header) ==
    IF header.kid # ""
    THEN KeysWithKid(keys, header) # {}
    ELSE Cardinality(KeysOfFamily(keys, header)) = 1

\* the second key resolution of invocation p has returned
SecondResolutionReturned(p) ==
    /\ loc[p].attempt = 2
    /\ Count(log[p], "resolve:null") + Count(log[p], "resolve:key") = 2

\* the position of the (single) resetSigningKeys in the log
ResetAt(events) == CHOOSE i \in 1..Len(events) : events[i] = "resetSigningKeys"

\* C7: in the implicit path, when the first key set (cached, statically
\* configured or fetched) resolved no key, the second resolution comes after
\* exactly one cache reset and exactly one key-set fetch issued after it; the
\* key cache then holds the refetched set; and when that set resolves a key
\* for the header, the validation goes on to validateJwt with a key of the
\* refetched set.
C7_KeyRotationRecovery ==
    \A p \in Procs :
        SecondResolutionReturned(p) =>
            LET keys   == Val(loc[p].keys)
                header == Val(loc[p].jwt).header
                after  == SubSeq(log[p], ResetAt(log[p]), Len(log[p]))
            IN  /\ args[p].response.code = ""
                /\ Count(log[p], "resetSigningKeys") = 1
                /\ Count(after, "getJson:jwks") = 1
                /\ log[p][ResetAt(log[p]) - 1] = "resolve:null"
                /\ _signingKeys = Some(keys)
                /\ Resolvable(keys, header) =>
                     /\ loc[p].key # Null
                     /\ \E i \in 1..Len(keys) : loc[p].key = Some(keys[i])
                     /\ pc[p] = "validateIdToken:key" \/ Occurs(log[p], "validateJwt")

C7_Witness ==
    \E p \in Procs :
        /\ settings.signingKeys = Some(<<KeyOld>>)
        /\ SecondResolutionReturned(p)
        /\ Count(log[p], "getJson:jwks") = 1
        /\ Val(loc[p].jwt).header.kid = "k2"
        /\ loc[p].key = Some(KeyNew)
        /\ _signingKeys # settings.signingKeys
        /\ Occurs(log[p], "validateIdToken:ok")

-----------------------------------------------------------------------------
(* C8 *)

\* C8: when the callback carries a code, the invocation never calls
\* validateJwt, getSigningKeys or resetSigningKeys (nor fetches the key set),
\* the key cache stays as constructed, and validateJwtAttributes is called only
\* after the token exchange has returned and only when the folded response
\* carries an id_token.
C8_CodePathAttributesOnly ==
    \A p \in Procs :
        (Started(p) /\ args[p].response.code # "") =>
            /\ ~Occurs(log[p], "validateJwt")
            /\ ~Occurs(log[p], "getSigningKeys")
            /\ ~Occurs(log[p], "resetSigningKeys")
            /\ ~Occurs(log[p], "getJson:jwks")
            /\ _signingKeys = settings.signingKeys
            /\ Precedes(log[p], "exchangeCode:returned", "validateJwtAttributes")
            /\ Occurs(log[p], "validateJwtAttributes") => resp[p].id_token # ""
            /\ (Occurs(log[p], "exchangeCode:returned") /\ resp[p].id_token = "") =>
                   resp[p].profile = Null \/ pc[p] \in {"processClaims:getClaims", "done"}

C8_Witness ==
    \E p \in Procs :
        /\ ReturnedOk(p)
        /\ args[p].response.code # ""
        /\ args[p].response.id_token # ""
        /\ Occurs(log[p], "validateJwtAttributes")
        /\ resp[p].profile # Null

-----------------------------------------------------------------------------
(* C9 *)

\* validateJwtAttributes has accepted the folded id_token of invocation p
AttributesAccepted(p) ==
    /\ Occurs(log[p], "validateJwtAttributes")
    /\ validateJwtAttributes(resp[p].id_token, loc[p].issuer, args[p].state.client_id,
                             settings.clockSkewInSeconds, Now) # Null

\* the nonce of the id_token payload is not the nonce of the request state
NonceDiffers(p) ==
    LET nonce == Get(JwtTable[resp[p].id_token].payload, "nonce")
    IN  IF args[p].state.nonce = "" THEN nonce.k # "u"
        ELSE ~IsStr(nonce, args[p].state.nonce)

\* C9 as claimed: in the code path, whenever the attribute validation meets an
\* id_token whose nonce is not state.nonce, the call fails with the
\* invalid-nonce error and no profile is set.
C9_Original ==
    \A p \in Procs :
        (Done(p) /\ args[p].response.code # "" /\ AttributesAccepted(p) /\ NonceDiffers(p)) =>
            /\ result[p] = Thrown("Invalid nonce in id_token")
            /\ resp[p].profile = Null

\* C9 amended: in the code path, whenever state.nonce is set and the attribute
\* validation meets an id_token whose nonce is not state.nonce, the call fails
\* with the invalid-nonce error and no profile is set from that id_token; when
\* state.nonce is not set the nonce of the id_token is not compared.
C9_NonceCheckedWhenStateHasNonce ==
    \A p \in Procs :
        /\ (Done(p) /\ args[p].response.code # "" /\ AttributesAccepted(p)
                    /\ args[p].state.nonce # "" /\ NonceDiffers(p)) =>
               /\ result[p] = Thrown("Invalid nonce in id_token")
               /\ resp[p].profile = Null
        /\ (Done(p) /\ args[p].response.code # "" /\ AttributesAccepted(p)
                    /\ args[p].state.nonce = "") =>
               result[p].error # "Invalid nonce in id_token"

C9_Witness ==
    \E p \in Procs :
        /\ Failed(p)
        /\ args[p].response.code # ""
        /\ args[p].state.nonce # ""
        /\ AttributesAccepted(p)
        /\ NonceDiffers(p)
        /\ result[p].error = "Invalid nonce in id_token"

-----------------------------------------------------------------------------
(* C10 *)

\* the callback of invocation p carries an id_token and no code
ImplicitCallback(p) ==
    Started(p) /\ args[p].response.id_token # "" /\ args[p].response.code = ""

\* the at_hash of the id_token binds the access token, under the digest the
\* header alg names
AtHashBinds(id_token, access_token) ==
    LET jwt == JwtTable[id_token]
    IN  \E bits \in {"256", "384", "512"} :
          /\ jwt.header.alg \in {"RS" \o bits, "PS" \o bits, "ES" \o bits, "HS" \o bits}
          /\ Get(jwt.payload, "at_hash") = S(AtHashOf(access_token, "sha" \o bits))

\* C10: for a callback with an id_token and no code, a successful return
\* implies that the nonce of the id_token equals state.nonce, a signing key was
\* resolved, validateJwt succeeded with that key and the issuer of the
\* metadata, and sub is non-empty; the at_hash check runs only when an
\* access_token is present and only after the id-token validation succeeded,
\* and with an access_token present a successful return implies that it ran
\* and succeeded.
C10_ImplicitFullValidation ==
    \A p \in Procs :
        ImplicitCallback(p) =>
            LET id_token == args[p].response.id_token
                access_token == args[p].response.access_token
                jwt == JwtTable[id_token]
            IN  /\ ReturnedOk(p) =>
                     /\ jwt.parses
                     /\ Get(jwt.payload, "nonce") = S(args[p].state.nonce)
                     /\ args[p].state.nonce # ""
                     /\ loc[p].key # Null
                     /\ Val(loc[p].key).mat = jwt.sig
                     /\ _metadata # Null
                     /\ Get(jwt.payload, "iss") = S(Val(_metadata).issuer)
                     /\ Get(jwt.payload, "aud") = S(args[p].state.client_id)
                     /\ Truthy(Get(jwt.payload, "sub"))
                     /\ Occurs(log[p], "validateJwt")
                     /\ access_token # "" =>
                          /\ Occurs(log[p], "validateAccessToken")
                          /\ AtHashBinds(id_token, access_token)
                /\ Precedes(log[p], "validateIdToken:ok", "validateAccessToken")
                /\ Occurs(log[p], "validateAccessToken") => access_token # ""
                /\ (Failed(p) /\ ~Occurs(log[p], "validateIdToken:ok")) =>
                       ~Occurs(log[p], "validateAccessToken")

C10_Witness ==
    \E p \in Procs :
        /\ ImplicitCallback(p)
        /\ ReturnedOk(p)
        /\ args[p].response.access_token # ""
        /\ Occurs(log[p], "validateAccessToken")

-----------------------------------------------------------------------------
(* Specification: _validateAccessToken applied to any profile, id_token and  *)
(* access token                                                              *)

\* the at_hash claims a profile may carry
AtHashClaims ==
    {S("")} \cup {S(AtHashOf(at, sha)) : at \in AccessTokens, sha \in {"sha256", "sha384", "sha512"}}

\* the profiles _validateAccessToken may meet: none, one without at_hash, one
\* with each at_hash claim
AtHashProfiles ==
    {Null, Some([sub |-> S("abc")])}
    \cup {Some([sub |-> S("abc"), at_hash |-> h]) : h \in AtHashClaims}

\* the id_tokens of the response: none, malformed, and one for each header alg
AtHashIdTokens ==
    {"", "idt_garbage", "idt_ok", "idt_nokid_es", "idt_rs384", "idt_rs512",
     "idt_alg4", "idt_alg6", "idt_alg128", "idt_algnan", "idt_noalg"}

\* the access tokens: two with digests, one whose digest cannot be computed
AtHashAccessTokens == AccessTokens \cup {"at3"}

\* _validateTokens is about to call _validateAccessToken(response, access_token)
AtHashInit ==
    /\ provider = AnyProvider
    /\ \E cfg \in ValidatorSettings :
         /\ cfg.metadata = Null /\ cfg.signingKeys = Null
         /\ MetadataServiceInit(cfg)
    /\ \E prof \in AtHashProfiles, it \in AtHashIdTokens, at \in AtHashAccessTokens :
         LET response == [SigninResponse("userdata", "", "", it, at, "openid")
                            EXCEPT !.profile = prof]
         IN  /\ resp = [p \in Procs |-> IF p = 1 THEN response ELSE NoArgs.response]
             /\ loc = [p \in Procs |->
                         IF p = 1 THEN [NoLocals EXCEPT !.access_token = at,
                                                        !.withAccessToken = TRUE]
                         ELSE NoLocals]
    /\ pc = [p \in Procs |-> IF p = 1 THEN "validateAccessToken" ELSE "off"]
    /\ args = [p \in Procs |-> NoArgs]
    /\ mcall = [p \in Procs |-> NoCall]
    /\ result = [p \in Procs |-> NoResult]
    /\ log = [p \in Procs |-> << >>]

AtHashNext == \E p \in Procs : ValidateAccessToken(p)

AtHashSpec == AtHashInit /\ [][AtHashNext]_vars

-----------------------------------------------------------------------------
(* C11 *)

\* the at_hash of the profile binds the access token under the digest the alg
\* of the id_token header names
AtHashAccepts(response, access_token) ==
    /\ response.profile # Null
    /\ "at_hash" \in DOMAIN Val(response.profile)
    /\ response.id_token \in IdTokens
    /\ JwtTable[response.id_token].parses
    /\ LET alg == JwtTable[response.id_token].header.alg
           at_hash == Val(response.profile).at_hash
       IN  /\ Len(alg) = 5
           /\ \E bits \in {"256", "384", "512"} :
                /\ SubSeq(alg, 3, 5) = bits
                /\ hashString(access_token, "sha" \o bits) # ""
                /\ at_hash.k = "s"
                /\ at_hash.v # ""
                /\ at_hash.v = AtHashOf(access_token, "sha" \o bits)

\* C11: _validateAccessToken accepts (the validation goes on to the claims
\* stage) exactly when the profile has a non-empty at_hash, the alg of the
\* id-token header has exactly 5 characters whose last 3 are 256, 384 or 512,
\* and the base64url encoding of the left half of the sha-<bits> digest of the
\* access token equals that at_hash; in every other case the call has failed
\* and no response is returned.
C11_AtHashAcceptsExactly ==
    \A p \in Procs :
        Occurs(log[p], "validateAccessToken") =>
            IF AtHashAccepts(resp[p], loc[p].access_token)
            THEN pc[p] = "processClaims" /\ result[p] = NoResult
            ELSE Failed(p) /\ result[p].kind = "Error"

C11_Witness ==
    \E p \in Procs :
        /\ Occurs(log[p], "validateAccessToken")
        /\ pc[p] = "processClaims"
        /\ JwtTable[resp[p].id_token].header.alg = "RS384"
        /\ loc[p].access_token = "at2"

-----------------------------------------------------------------------------
(* C12 *)

ErrSubMismatch == "sub from user info endpoint does not match sub in id_token"

\* the claims of the id_token the response carries
IdTokenClaims(p) ==
    IF parseJwt(resp[p].id_token) # Null
    THEN Val(parseJwt(resp[p].id_token)).payload
    ELSE EmptyObject

\* C12: when the user-info claims were fetched and their sub differs from the
\* sub of the profile, validateSigninResponse fails with the subject-mismatch
\* error: no response is returned, the profile holds claims of the id_token
\* only (nothing of the user-info claims was merged) and response.state is
\* state.data; a call that returns after fetching user-info claims has a
\* single sub, the one of the id_token.
C12_SubMismatchFails ==
    \A p \in Procs :
        /\ (Failed(p) /\ result[p].error = ErrSubMismatch) =>
              /\ Occurs(log[p], "getClaims:returned")
              /\ result[p].kind = "Error"
              /\ result[p].payload = Null
              /\ resp[p].state = args[p].state.data
              /\ resp[p].profile # Null
              /\ \A n \in DOMAIN Val(resp[p].profile) :
                     /\ n \in DOMAIN IdTokenClaims(p)
                     /\ Val(resp[p].profile)[n] = IdTokenClaims(p)[n]
        /\ (Done(p) /\ Occurs(log[p], "getClaims:returned")
                    /\ result[p].error # ErrSubMismatch) =>
              /\ ReturnedOk(p)
              /\ resp[p].profile # Null
              /\ Get(Val(resp[p].profile), "sub").k # "a"
              /\ resp[p].profile # Some(EmptyObject) =>
                    Get(Val(resp[p].profile), "sub") = Get(IdTokenClaims(p), "sub")

C12_Witness ==
    \E p \in Procs :
        /\ Failed(p)
        /\ result[p].error = ErrSubMismatch
        /\ Get(IdTokenClaims(p), "sub") = S("abc")
        /\ Get(Val(resp[p].profile), "sub") = S("abc")
        /\ resp[p].state = "userdata"

-----------------------------------------------------------------------------
(* C13 *)

\* how often e occurs in the logs of all callers together
Fetches(e) ==
    Cardinality({pi \in UNION {{p} \X (1..Len(log[p])) : p \in Procs} :
                    log[pi[1]][pi[2]] = e})

NoReset == \A p \in Procs : ~Occurs(log[p], "resetSigningKeys")

\* C13 as claimed: absent resetSigningKeys, over all calls on the instance the
\* metadata document is fetched at most once and the key set at most once.
C13_Original ==
    NoReset => Fetches("getJson:metadata") <= 1 /\ Fetches("getJson:jwks") <= 1

\* at the begin of a call by p, nothing that is cached is fetched
CallUsesCache(p) ==
    (~Awaiting(p) /\ Awaiting(p)') =>
        /\ _metadata # Null =>
              /\ mcall'[p].phase # "fetch_metadata"
              /\ Count(log'[p], "getJson:metadata") = Count(log[p], "getJson:metadata")
              /\ mcall'[p].op # "getSigningKeys" => mcall'[p].md = _metadata
        /\ (_signingKeys # Null /\ mcall'[p].op = "getSigningKeys") =>
              /\ mcall'[p].phase = "returned"
              /\ mcall'[p].keys = _signingKeys
              /\ log'[p] = Append(log[p], "getSigningKeys")

\* C13 amended: absent resetSigningKeys, a call that starts when the metadata
\* document (the key set) is cached does not fetch it, and one call fetches
\* each of the two at most once; so once a fetch has populated the cache, no
\* call that starts afterwards fetches again.  (Calls that overlap on an empty
\* cache may each fetch, and a call after a failed fetch fetches again.)
C13_NoFetchOnceCached ==
    /\ [](\A p \in Procs : /\ Count(log[p], "getJson:metadata") <= 1
                           /\ Count(log[p], "getJson:jwks") <= 1)
    /\ [][\A p \in Procs : CallUsesCache(p)]_vars

C13_Witness ==
    \E p, q \in Procs :
        /\ p # q
        /\ settings.signingKeys = Null /\ settings.metadata = Null
        /\ pc[p] = "ms:done" /\ pc[q] = "ms:done"
        /\ result[p].kind = "getSigningKeys" /\ result[q].kind = "getSigningKeys"
        /\ Occurs(log[p], "getJson:metadata") /\ Occurs(log[p], "getJson:jwks")
        /\ log[q] = <<"getSigningKeys", "returned">>
        /\ result[q].payload = _signingKeys

-----------------------------------------------------------------------------
(* C14 *)

\* caller p made call op on an empty cache, fetched, and the call returned
RacerReturned(p, op, fetch) ==
    /\ pc[p] = "ms:done"
    /\ result[p].status = "returned"
    /\ result[p].kind = op
    /\ Occurs(log[p], fetch)

-----------------------------------------------------------------------------
(* C15 *)

\* the operations that read one property of the metadata
PropertyOf ==
    [ getIssuer                |-> "issuer",
      getAuthorizationEndpoint |-> "authorization_endpoint",
      getUserInfoEndpoint      |-> "userinfo_endpoint",
      getTokenEndpoint         |-> "token_endpoint",
      getCheckSessionIframe    |-> "check_session_iframe",
      getEndSessionEndpoint    |-> "end_session_endpoint",
      getRevocationEndpoint    |-> "revocation_endpoint",
      getKeysEndpoint          |-> "jwks_uri" ]

\* the call of caller p has settled and the caller has not resumed yet
Settled(p) == Awaiting(p) /\ mcall[p].phase \in {"returned", "thrown"}

\* C15: with static metadata in the settings, whatever authority and
\* metadataUrl are, the metadata URL is never fetched, the metadata cache is
\* the static document, getMetadata returns it and every endpoint accessor
\* answers from it.
C15_StaticMetadataNeverFetched ==
    settings.metadata # Null =>
        /\ _metadata = settings.metadata
        /\ \A p \in Procs :
              /\ ~Occurs(log[p], "getJson:metadata")
              /\ mcall[p].phase # "fetch_metadata"
              /\ mcall[p].md # Null => mcall[p].md = settings.metadata
              /\ (result[p].status = "returned" /\ result[p].kind = "getMetadata") =>
                     result[p].payload = settings.metadata
              /\ (Settled(p) /\ mcall[p].op \in DOMAIN PropertyOf) =>
                     LET name == PropertyOf[mcall[p].op]
                         doc  == Val(settings.metadata)
                     IN  IF name \in DOMAIN doc
                         THEN mcall[p].phase = "returned" /\ mcall[p].prop = Some(doc[name])
                         ELSE \/ mcall[p].phase = "returned" /\ mcall[p].prop = Null
                              \/ mcall[p].phase = "thrown" /\ mcall[p].err = ErrNoProperty \o name

C15_Witness ==
    \E p \in Procs :
        /\ settings.metadata = Some(SparseMetadata)
        /\ settings.authority # "" /\ settings.metadataUrl # ""
        /\ result[p].status = "returned" /\ result[p].kind = "getMetadata"
        /\ Settled(p) /\ mcall[p].op = "getTokenEndpoint"
        /\ mcall[p].prop = Some("token")

-----------------------------------------------------------------------------
(* C16 *)

\* no static metadata, no metadataUrl and no authority are configured
NothingConfigured ==
    settings.metadata = Null /\ settings.metadataUrl = "" /\ settings.authority = ""

\* C16: when neither static metadata nor metadataUrl nor authority is
\* configured, no fetch is ever issued, the metadata cache stays empty, and
\* every getMetadata, accessor and getSigningKeys call fails with the
\* configuration error, except a getSigningKeys call that is answered from the
\* key cache (statically configured keys) and so does not read the metadata.
C16_NoUrlFailsWithoutFetch ==
    NothingConfigured =>
        /\ _metadata = Null
        /\ _metadataUrl = ""
        /\ \A p \in Procs :
              /\ \A i \in 1..Len(log[p]) : log[p][i] \notin NetworkCalls
              /\ mcall[p].op # "none" =>
                    \/ mcall[p].phase = "thrown" /\ mcall[p].err = ErrNoUrl
                    \/ /\ mcall[p].op = "getSigningKeys"
                       /\ mcall[p].phase = "returned"
                       /\ mcall[p].keys = settings.signingKeys
                       /\ settings.signingKeys # Null
                       /\ ~Occurs(log[p], "resetSigningKeys")
              /\ result[p].status = "failed" => result[p] = Thrown(ErrNoUrl)
              /\ result[p].status = "returned" =>
                    result[p].kind \in {"getSigningKeys", "resetSigningKeys"}

C16_Witness ==
    \E p \in Procs :
        /\ NothingConfigured
        /\ result[p] = Thrown(ErrNoUrl)
        /\ log[p] = <<"getMetadata", "thrown", "accessor", "thrown", "getSigningKeys", "thrown">>

-----------------------------------------------------------------------------
(* C17 *)

\* caller p calls resetSigningKeys in this step
ResetStep(p) == log'[p] = Append(log[p], "resetSigningKeys")

\* caller p begins a getSigningKeys call in this step, its first call after a
\* resetSigningKeys
GetSigningKeysAfterReset(p) ==
    /\ ~Awaiting(p) /\ Awaiting(p)'
    /\ mcall'[p].op = "getSigningKeys"
    /\ log[p] # << >>
    /\ log[p][Len(log[p])] = "resetSigningKeys"

\* in the log, a getSigningKeys call that follows a resetSigningKeys and has
\* returned has fetched the key set in between
RefetchedAfterReset(events) ==
    \A i \in 1..(Len(events) - 1) :
        (events[i] = "resetSigningKeys" /\ events[i + 1] = "getSigningKeys") =>
            \A k \in (i + 2)..Len(events) :
                (events[k] = "returned"
                    /\ \A j \in (i + 2)..(k - 1) : events[j] \notin {"returned", "thrown"}) =>
                    \E j \in (i + 2)..(k - 1) : events[j] = "getJson:jwks"

\* C17: resetSigningKeys empties the signing-key cache and leaves the cached
\* metadata document, the metadata URL and the settings as they are; the next
\* getSigningKeys call is not answered from the key cache: it reads jwks_uri
\* from the cached metadata document without fetching that document again (it
\* fetches the document only when none is cached) and returns only after
\* fetching the key set, also when the keys reset were statically configured.
C17_ResetOnlyKeys ==
    /\ [][\A p \in Procs :
            /\ ResetStep(p) =>
                  /\ _signingKeys' = Null
                  /\ _metadata' = _metadata
                  /\ _metadataUrl' = _metadataUrl
                  /\ settings' = settings
                  /\ mcall' = mcall
            /\ GetSigningKeysAfterReset(p) =>
                  /\ mcall'[p].phase # "returned"
                  /\ _metadata # Null =>
                        /\ mcall'[p].phase = "have_metadata"
                        /\ mcall'[p].md = _metadata
                        /\ log'[p] = Append(log[p], "getSigningKeys")
                  /\ (_metadata = Null /\ _metadataUrl # "") =>
                        mcall'[p].phase = "fetch_metadata"]_vars
    /\ [](\A p \in Procs : RefetchedAfterReset(log[p]))

C17_Witness ==
    \E p \in Procs :
        /\ settings.signingKeys = Some(<<KeyOld>>)
        /\ settings.metadata = Null
        /\ log[p] = <<"accessor", "getJson:metadata", "returned", "resetSigningKeys",
                      "getSigningKeys", "getJson:jwks", "returned">>
        /\ result[p].kind = "getSigningKeys"
        /\ result[p].payload = Some(<<KeyNew>>)
        /\ _signingKeys = Some(<<KeyNew>>)

-----------------------------------------------------------------------------
(* C18 *)

RequiredAccessors == {"getIssuer", "getAuthorizationEndpoint", "getUserInfoEndpoint"}

OptionalAccessors == {"getCheckSessionIframe", "getEndSessionEndpoint", "getRevocationEndpoint"}

\* C18: an accessor whose call has settled after the metadata was obtained
\* answers from that document (the cached one): a present property is
\* returned; an absent property makes getIssuer, getAuthorizationEndpoint and
\* getUserInfoEndpoint (and getTokenEndpoint / getKeysEndpoint called as
\* required) fail, and makes getCheckSessionIframe, getEndSessionEndpoint and
\* getRevocationEndpoint (and getTokenEndpoint / getKeysEndpoint called as
\* optional) return an absent value; getSigningKeys fails when jwks_uri is
\* absent.  A failure of getMetadata is the failure of the accessor.
C18_AccessorRequiredness ==
    \A p \in Procs :
        /\ (Settled(p) /\ mcall[p].op \in DOMAIN PropertyOf) =>
              LET c    == mcall[p]
                  name == PropertyOf[c.op]
                  required == \/ c.op \in RequiredAccessors
                              \/ c.op \notin OptionalAccessors /\ ~c.optional
              IN  IF c.md = Null
                  THEN c.phase = "thrown" /\ c.err \in {ErrNoUrl, ErrNetwork}
                  ELSE /\ _metadata = c.md
                       /\ IF name \in DOMAIN Val(c.md)
                          THEN c.phase = "returned" /\ c.prop = Some(Val(c.md)[name])
                          ELSE IF required
                          THEN c.phase = "thrown" /\ c.err = ErrNoProperty \o name
                          ELSE c.phase = "returned" /\ c.prop = Null
        /\ (Awaiting(p) /\ mcall[p].op = "getSigningKeys" /\ mcall[p].md # Null) =>
              IF "jwks_uri" \in DOMAIN Val(mcall[p].md)
              THEN mcall[p].phase = "have_metadata" \/ mcall[p].prop = Some(Val(mcall[p].md).jwks_uri)
              ELSE /\ mcall[p].phase \in {"have_metadata", "thrown"}
                   /\ mcall[p].phase = "thrown" =>
                         mcall[p].err = ErrNoProperty \o "jwks_uri"

C18_Witness ==
    \E p \in Procs :
        /\ Settled(p)
        /\ mcall[p].op = "getUserInfoEndpoint"
        /\ mcall[p].md = Some(SparseMetadata)
        /\ mcall[p].phase = "thrown"
        /\ result[p] = MSReturned("getRevocationEndpoint", Null)

-----------------------------------------------------------------------------
(* Specification: validateSignoutResponse applied to any state and response *)

\* the request states and sign-out responses of a call
SignoutCalls ==
    { SigninCall([SigninState("c1", Authority, "", "", FALSE) EXCEPT !.id = id, !.data = data],
                 [SigninResponse(rs, e, "", "", "", "") EXCEPT !.error_description = ed]) :
        id \in {"s1", "s2"}, data \in {"userdata", "", "s1"},
        rs \in {"s1", "s2", ""}, e \in {"", "access_denied", "server_error"},
        ed \in {"", "denied"} }

\* validateSignoutResponse is called with (state, response)
SignoutInit ==
    /\ provider = AnyProvider
    /\ \E cfg \in ValidatorSettings :
         /\ cfg.metadata = Null /\ cfg.signingKeys = Null
         /\ cfg.filterProtocolClaims /\ cfg.loadUserInfo
         /\ MetadataServiceInit(cfg)
    /\ \E call \in SignoutCalls :
         /\ args = [p \in Procs |-> IF p = 1 THEN call ELSE NoArgs]
         /\ resp = [p \in Procs |-> IF p = 1 THEN call.response ELSE NoArgs.response]
    /\ pc = [p \in Procs |-> IF p = 1 THEN "validateSignoutResponse" ELSE "off"]
    /\ loc = [p \in Procs |-> NoLocals]
    /\ mcall = [p \in Procs |-> NoCall]
    /\ result = [p \in Procs |-> NoResult]
    /\ log = [p \in Procs |-> << >>]

\* validateSignoutResponse copying state.data after the test of response.error
ValidateSignoutResponse_LateCopy(p) ==
    /\ pc[p] = "validateSignoutResponse"
    /\ LET state == args[p].state
           response == resp[p]
       IN  IF state.id # response.state
           THEN /\ Finish(p, Thrown("State does not match"))
                /\ UNCHANGED resp
           ELSE IF response.error # ""
           THEN /\ Finish(p, ThrownErrorResponse(response))
                /\ UNCHANGED resp
           ELSE /\ resp' = [resp EXCEPT ![p].state = state.data]
                /\ Finish(p, Returned)
    /\ UNCHANGED <<msVars, args, loc, mcall, log>>

\* validateSignoutResponse(state, response)
ValidateSignoutResponse(p) ==
    /\ pc[p] = "validateSignoutResponse"
    /\ LET state == args[p].state
           response == resp[p]
           copied == [response EXCEPT !.state = state.data]
       IN  IF state.id # response.state
           THEN /\ Finish(p, Thrown("State does not match"))
                /\ UNCHANGED resp
           ELSE /\ resp' = [resp EXCEPT ![p] = copied]
                /\ IF copied.error # ""
                   THEN Finish(p, ThrownErrorResponse(copied))
                   ELSE Finish(p, Returned)
    /\ UNCHANGED <<msVars, args, loc, mcall, log>>

SignoutNext == \E p \in Procs : ValidateSignoutResponse(p)

SignoutSpec == SignoutInit /\ [][SignoutNext]_vars

-----------------------------------------------------------------------------
(* C19 *)

\* C19 as claimed: on every outcome of validateSignoutResponse, the state
\* mismatch included, response.state equals state.data; with response.error
\* present the failure is an ErrorResponse, otherwise the response is returned.
C19_Original ==
    \A p \in Procs :
        Done(p) =>
            /\ resp[p].state = args[p].state.data
            /\ args[p].response.error # "" => result[p].kind = "ErrorResponse"

\* C19 amended: when response.state is not state.id the call fails with the
\* state-mismatch error and response.state is left as it was received; when
\* it is state.id, response.state is state.data on both outcomes: with
\* response.error present the call fails with an ErrorResponse that carries
\* the error fields and state.data, otherwise the response is returned.
C19_SignoutCopiesDataOnceCorrelated ==
    \A p \in Procs :
        Done(p) =>
            IF args[p].response.state # args[p].state.id
            THEN /\ result[p] = Thrown("State does not match")
                 /\ resp[p] = args[p].response
            ELSE /\ resp[p] = [args[p].response EXCEPT !.state = args[p].state.data]
                 /\ IF args[p].response.error # ""
                    THEN /\ result[p].status = "failed"
                         /\ result[p].kind = "ErrorResponse"
                         /\ result[p].error = args[p].response.error
                         /\ Val(result[p].payload).state = args[p].state.data
                         /\ Val(result[p].payload).error_description =
                                args[p].response.error_description
                    ELSE result[p] = Returned

C19_Witness ==
    \E p \in Procs :
        /\ Done(p)
        /\ args[p].state.id = "s2"
        /\ args[p].response.state = "s2"
        /\ args[p].response.error = "access_denied"
        /\ result[p].kind = "ErrorResponse"
        /\ Val(result[p].payload).state = "userdata"
        /\ resp[p].state = "userdata"

-----------------------------------------------------------------------------
(* Specification: _mergeClaims applied to two claim sets *)

\* what the first claim set holds under the name "a"; Undefined: nothing
FirstValues ==
    << Undefined, S("1"), S(""), N(0), N(7),
       A(<< >>), A(<<S("1")>>), A(<<S("1"), S("2")>>),
       O([x |-> S("1")]), O([x |-> S("1"), y |-> S("3")]) >>

\* what the second claim set holds under the name "a"
SecondValues ==
    << Undefined, S("1"), S("2"), S(""), N(7), N(8),
       A(<<S("2"), S("1")>>), A(<<S("3")>>), A(<<S(""), S("2")>>),
       O([x |-> S("1")]), O([x |-> S("2"), z |-> S("4")]) >>

\* a claim set with one more claim, which the other set lacks
MergeInput(value, other) ==
    IF value.k = "u" THEN other ELSE [n \in {"a"} |-> value] @@ other

\* _processClaims is about to call _mergeClaims(claims1, claims2)
MergeInit ==
    /\ provider = AnyProvider
    /\ \E cfg \in ValidatorSettings, deep \in BOOLEAN :
         /\ cfg.metadata = Null /\ cfg.signingKeys = Null
         /\ cfg.filterProtocolClaims /\ cfg.loadUserInfo
         /\ MetadataServiceInit([cfg EXCEPT !.mergeClaims = deep])
    /\ \E i \in 1..Len(FirstValues), j \in 1..Len(SecondValues) :
         args = [p \in Procs |->
                   IF p = 1
                   THEN [claims1 |-> MergeInput(FirstValues[i], [sub |-> S("alice")]),
                         claims2 |-> MergeInput(SecondValues[j], [email |-> S("a@x")])]
                   ELSE [claims1 |-> EmptyObject, claims2 |-> EmptyObject]]
    /\ resp = [p \in Procs |-> NoArgs.response]
    /\ pc = [p \in Procs |-> IF p = 1 THEN "mergeClaims" ELSE "off"]
    /\ loc = [p \in Procs |-> NoLocals]
    /\ mcall = [p \in Procs |-> NoCall]
    /\ result = [p \in Procs |-> NoResult]
    /\ log = [p \in Procs |-> << >>]

\* response.profile = this._mergeClaims(claims1, claims2)
MergeClaims(p) ==
    /\ pc[p] = "mergeClaims"
    /\ resp' = [resp EXCEPT ![p].profile =
                  Some(_mergeClaims(args[p].claims1, args[p].claims2, settings.mergeClaims))]
    /\ Finish(p, Returned)
    /\ UNCHANGED <<msVars, args, loc, mcall, log>>

MergeNext == \E p \in Procs : MergeClaims(p)

MergeSpec == MergeInit /\ [][MergeNext]_vars

-----------------------------------------------------------------------------
(* C20 *)

IsScalar(x) == x.k \in {"s", "n"}

\* the same claim value, structurally
RECURSIVE SameValue(_, _)
SameValue(a, b) ==
    /\ a.k = b.k
    /\ CASE a.k = "u" -> TRUE
         [] a.k \in {"s", "n"} -> a.v = b.v
         [] a.k = "a" -> /\ Len(a.v) = Len(b.v)
                         /\ \A i \in 1..Len(a.v) : SameValue(a.v[i], b.v[i])
         [] OTHER -> /\ DOMAIN a.v = DOMAIN b.v
                     /\ \A n \in DOMAIN a.v : SameValue(a.v[n], b.v[n])

\* the sequence holds the scalar
Holds(array, value) == \E i \in 1..Len(array) : SameValue(array[i], value)

\* two composites of scalars merged: the names of both, a name of both with
\* two different scalars holding the pair
MergedComposite(o1, o2, merged) ==
    /\ merged.k = "o"
    /\ DOMAIN merged.v = DOMAIN o1 \cup DOMAIN o2
    /\ \A n \in DOMAIN merged.v :
         IF n \notin DOMAIN o2 THEN SameValue(merged.v[n], o1[n])
         ELSE IF n \notin DOMAIN o1 THEN SameValue(merged.v[n], o2[n])
         ELSE IF SameValue(o1[n], o2[n]) THEN SameValue(merged.v[n], o1[n])
         ELSE SameValue(merged.v[n], A(<<o1[n], o2[n]>>))

\* the three cases of the merge of claims2.a into claims1.a
MergeCases(first, second, merged, deep) ==
    /\ (~deep /\ IsScalar(first) /\ IsScalar(second) /\ ~SameValue(first, second)) =>
           SameValue(merged, A(<<first, second>>))
    /\ (deep /\ first.k = "o" /\ second.k = "o") =>
           MergedComposite(first.v, second.v, merged)
    /\ (first.k = "a" /\ IsScalar(second)) =>
           IF Holds(first.v, second) THEN SameValue(merged, first)
           ELSE SameValue(merged, A(Append(first.v, second)))

\* C20: the merge of a second claim set into a first: with deep merge
\* disabled two different scalars of one name yield the sequence
\* <<first, second>>; with deep merge enabled two composites of one name
\* yield their recursively merged composite; a scalar merged into a sequence
\* that holds it leaves the sequence as it was, and a scalar it does not hold
\* is appended at the end.
C20_Original ==
    \A p \in Procs :
        (Done(p) /\ resp[p].profile # Null) =>
            MergeCases(Get(args[p].claims1, "a"), Get(args[p].claims2, "a"),
                       Get(Val(resp[p].profile), "a"), settings.mergeClaims)

\* the same three cases for a first value that JavaScript takes as true
C20_MergeCasesOfTruthyFirst ==
    \A p \in Procs :
        (Done(p) /\ resp[p].profile # Null /\ Truthy(Get(args[p].claims1, "a"))) =>
            MergeCases(Get(args[p].claims1, "a"), Get(args[p].claims2, "a"),
                       Get(Val(resp[p].profile), "a"), settings.mergeClaims)

\* deep merge disabled, claims1.a = "" and claims2.a = "2": the result holds
\* "2" alone
C20_Witness ==
    \E p \in Procs :
        /\ Done(p)
        /\ ~settings.mergeClaims
        /\ SameValue(Get(args[p].claims1, "a"), S(""))
        /\ SameValue(Get(args[p].claims2, "a"), S("2"))
        /\ SameValue(Get(Val(resp[p].profile), "a"), S("2"))

-----------------------------------------------------------------------------
(* C21 *)

\* the scalars a claim value asserts: itself, or its elements in order
Asserted(x) ==
    IF IsScalar(x) THEN <<x>>
    ELSE IF x.k = "a" THEN SelectSeq(x.v, IsScalar)
    ELSE << >>

\* the first sequence begins the second
BeginsWith(whole, begin) ==
    /\ Len(begin) <= Len(whole)
    /\ \A i \in 1..Len(begin) : SameValue(whole[i], begin[i])

\* every scalar either set asserts for the name is asserted by the merged
\* value, the first set's before those the second set adds
KeepsAssertions(first, second, merged) ==
    /\ \A i \in 1..Len(Asserted(first)) : Holds(Asserted(merged), Asserted(first)[i])
    /\ \A j \in 1..Len(Asserted(second)) : Holds(Asserted(merged), Asserted(second)[j])
    /\ BeginsWith(Asserted(merged), Asserted(first))

\* C21: the merge discards no assertion: every scalar that either claim set
\* asserts for a name, directly or as an element of a sequence, is asserted
\* by the merged result for that name, the first set's values before the
\* values the second set adds.
C21_Original ==
    \A p \in Procs :
        (Done(p) /\ resp[p].profile # Null) =>
            \A name \in DOMAIN args[p].claims1 \cup DOMAIN args[p].claims2 :
                KeepsAssertions(Get(args[p].claims1, name), Get(args[p].claims2, name),
                                Get(Val(resp[p].profile), name))

\* the same for a first value that JavaScript takes as true, a second value
\* whose scalars are all taken as true, and no deep merge into a scalar
C21_KeepsTruthyAssertions ==
    \A p \in Procs :
        (Done(p) /\ resp[p].profile # Null) =>
            \A name \in DOMAIN args[p].claims1 \cup DOMAIN args[p].claims2 :
                LET first == Get(args[p].claims1, name)
                    second == Get(args[p].claims2, name)
                IN  (/\ first.k = "u" \/ Truthy(first)
                     /\ \A j \in 1..Len(Asserted(second)) : Truthy(Asserted(second)[j])
                     /\ ~(settings.mergeClaims /\ IsScalar(first) /\ second.k \in {"o", "a"}))
                    => KeepsAssertions(first, second, Get(Val(resp[p].profile), name))

\* claims1.a = 0 and claims2.a = 7: the result holds 7 alone
C21_Witness ==
    \E p \in Procs :
        /\ Done(p)
        /\ SameValue(Get(args[p].claims1, "a"), N(0))
        /\ SameValue(Get(args[p].claims2, "a"), N(7))
        /\ SameValue(Get(Val(resp[p].profile), "a"), N(7))

-----------------------------------------------------------------------------
(* C22 *)

\* the profile of an invocation, {} when none was set
Profile(p) == IF resp[p].profile = Null THEN EmptyObject ELSE Val(resp[p].profile)

\* user-info claims were merged into the profile
MergedUserInfo(p) == ReturnedOk(p) /\ Occurs(log[p], "getClaims:returned")

\* C22: when filterProtocolClaims is enabled, the profile of every response
\* that validateSigninResponse returns for an OpenID Connect response holds
\* none of the names nonce, at_hash, iat, nbf, exp, aud, iss, c_hash; when it
\* is disabled the claims of the id_token are kept unchanged.
C22_Original ==
    \A p \in Procs :
        (ReturnedOk(p) /\ isOpenIdConnect(resp[p])) =>
            IF settings.filterProtocolClaims
            THEN DOMAIN Profile(p) \cap ProtocolClaims = {}
            ELSE \A n \in DOMAIN IdTokenClaims(p) :
                    /\ n \in DOMAIN Profile(p)
                    /\ ~MergedUserInfo(p) => SameValue(Profile(p)[n], IdTokenClaims(p)[n])

\* what holds: a returned profile holds no protocol claim name when
\* filterProtocolClaims is enabled and no user-info claims were merged, and
\* with the filter disabled the claims of the id_token are kept
C22_FilteredUnlessUserInfo ==
    \A p \in Procs :
        (ReturnedOk(p) /\ isOpenIdConnect(resp[p])) =>
            IF settings.filterProtocolClaims
            THEN ~MergedUserInfo(p) => DOMAIN Profile(p) \cap ProtocolClaims = {}
            ELSE \A n \in DOMAIN IdTokenClaims(p) :
                    /\ n \in DOMAIN Profile(p)
                    /\ ~MergedUserInfo(p) => SameValue(Profile(p)[n], IdTokenClaims(p)[n])

\* filterProtocolClaims enabled, and the returned profile holds aud and iss,
\* which the user-info claims brought
C22_Witness ==
    \E p \in Procs :
        /\ ReturnedOk(p)
        /\ isOpenIdConnect(resp[p])
        /\ settings.filterProtocolClaims
        /\ MergedUserInfo(p)
        /\ {"aud", "iss"} \subseteq DOMAIN Profile(p)
        /\ "exp" \notin DOMAIN Profile(p)

-----------------------------------------------------------------------------
(* C23 *)

\* the conditions under which _processClaims loads user info
WantsUserInfo(p) ==
    /\ isOpenIdConnect(resp[p])
    /\ settings.loadUserInfo
    /\ args[p].state.skipUserInfo # TRUE
    /\ resp[p].access_token # ""

\* the step calls UserInfoService.getClaims for invocation p
IssuesUserInfoFetch(p) ==
    Count(log'[p], "getClaims") = Count(log[p], "getClaims") + 1

\* the claims of the id_token as _filterProtocolClaims leaves them
FilteredIdTokenClaims(p) ==
    IF settings.filterProtocolClaims
    THEN Without(IdTokenClaims(p), ProtocolClaims)
    ELSE IdTokenClaims(p)

\* the profile is the (filtered) claim set of the id_token
ProfileIsIdTokenClaims(p) ==
    /\ DOMAIN Profile(p) = DOMAIN FilteredIdTokenClaims(p)
    /\ \A n \in DOMAIN Profile(p) : SameValue(Profile(p)[n], FilteredIdTokenClaims(p)[n])

\* a step issues the user-info fetch exactly when the token stage has
\* completed without failure and the conditions hold
UserInfoFetchStep ==
    \A p \in Procs :
        IssuesUserInfoFetch(p) <=> (pc[p] = "processClaims" /\ WantsUserInfo(p))

\* what holds of an invocation in every state
UserInfoFetchState ==
    \A p \in Procs :
        /\ Count(log[p], "getClaims") <= 1
        /\ pc[p] = "processClaims" => result[p] = NoResult
        /\ ReturnedOk(p) => (Occurs(log[p], "getClaims") <=> WantsUserInfo(p))
        /\ Done(p) /\ ~WantsUserInfo(p) => ~Occurs(log[p], "getClaims")
        /\ ReturnedOk(p) /\ ~Occurs(log[p], "getClaims") => ProfileIsIdTokenClaims(p)

\* C23: the user-info endpoint is fetched in an invocation if and only if the
\* token stage completed without failure, the response is an OpenID Connect
\* response, settings.loadUserInfo is enabled, state.skipUserInfo is not true
\* and the response carries a non-empty access_token; in every other case no
\* fetch is issued and the returned profile is the (filtered) claim set of
\* the id_token.
C23_UserInfoFetchedIff == [][UserInfoFetchStep]_vars /\ []UserInfoFetchState

\* a returned invocation that skipped user info although everything else
\* asked for it
C23_Witness ==
    \E p \in Procs :
        /\ ReturnedOk(p)
        /\ isOpenIdConnect(resp[p])
        /\ settings.loadUserInfo
        /\ resp[p].access_token # ""
        /\ args[p].state.skipUserInfo = TRUE
        /\ ~Occurs(log[p], "getClaims")
        /\ Profile(p) # EmptyObject
        /\ ProfileIsIdTokenClaims(p)

-----------------------------------------------------------------------------
(* C24 *)

\* the response as it stood before the exchange: the callback's response with
\* state.data and, where the callback named no scope, state.scope
BeforeExchange(p) ==
    [ args[p].response EXCEPT
        !.state = args[p].state.data,
        !.scope = IF @ = "" THEN args[p].state.scope ELSE @ ]

FoldedStrings ==
    {"error", "error_description", "error_uri", "id_token", "session_state",
     "access_token", "token_type", "scope"}

\* the text fields hold the token endpoint's value where it is non-empty and
\* the value from before the exchange otherwise
FoldsStrings(p) ==
    \A f \in FoldedStrings :
        resp[p][f] = IF Val(loc[p].tokenResponse)[f] # ""
                     THEN Val(loc[p].tokenResponse)[f]
                     ELSE BeforeExchange(p)[f]

\* C24: after a token exchange each of error, error_description, error_uri,
\* id_token, session_state, access_token, token_type, scope and expires_in is
\* the token endpoint's value where that is non-empty and otherwise the value
\* from before the exchange (for scope: the callback's scope or, where that
\* was omitted, state.scope).
C24_Original ==
    \A p \in Procs :
        loc[p].tokenResponse # Null =>
            /\ FoldsStrings(p)
            /\ resp[p].expires_in =
                   IF Val(loc[p].tokenResponse).expires_in # ""
                   THEN ParseInt(Val(loc[p].tokenResponse).expires_in)
                   ELSE BeforeExchange(p).expires_in

\* the same with the expires_in the code keeps: a token endpoint's
\* expires_in that parses to no number or to 0 leaves the earlier value
C24_FoldExceptZeroExpiry ==
    \A p \in Procs :
        loc[p].tokenResponse # Null =>
            /\ FoldsStrings(p)
            /\ resp[p].expires_in =
                   IF ParseInt(Val(loc[p].tokenResponse).expires_in) \notin {Null, Some(0)}
                   THEN ParseInt(Val(loc[p].tokenResponse).expires_in)
                   ELSE BeforeExchange(p).expires_in

\* the token endpoint answered expires_in "0" next to a new id_token; the
\* response took the id_token and has no expires_in
C24_Witness ==
    \E p \in Procs :
        /\ loc[p].tokenResponse # Null
        /\ Val(loc[p].tokenResponse).expires_in = "0"
        /\ Val(loc[p].tokenResponse).id_token = "idt_ok"
        /\ resp[p].id_token = "idt_ok"
        /\ resp[p].expires_in = Null
        /\ args[p].response.scope = ""
        /\ resp[p].scope = args[p].state.scope

-----------------------------------------------------------------------------
(* C25 *)

\* C25: every in-band provider error ends the validation in a structured
\* error result that carries the correlated state.data: no response with a
\* non-empty error field is returned, whether the error came with the
\* callback or with the result of the token exchange.
C25_Original ==
    \A p \in Procs :
        /\ ReturnedOk(p) => resp[p].error = ""
        /\ (Failed(p) /\ result[p].kind = "ErrorResponse") =>
              /\ Val(result[p].payload).error # ""
              /\ Val(result[p].payload).state = args[p].state.data

\* what holds: an error of the callback is never returned, every
\* ErrorResponse carries state.data, and a returned response with an error
\* has it from the token exchange
C25_CallbackErrorsOnly ==
    \A p \in Procs :
        /\ ReturnedOk(p) =>
              /\ args[p].response.error = ""
              /\ resp[p].error # "" =>
                    /\ loc[p].tokenResponse # Null
                    /\ Val(loc[p].tokenResponse).error = resp[p].error
        /\ (Failed(p) /\ result[p].kind = "ErrorResponse") =>
              /\ Val(result[p].payload).error = args[p].response.error
              /\ Val(result[p].payload).error # ""
              /\ Val(result[p].payload).state = args[p].state.data

\* a response returned with the error of the token exchange
C25_Witness ==
    \E p \in Procs :
        /\ ReturnedOk(p)
        /\ resp[p].error = "invalid_grant"
        /\ resp[p].error_description = "code expired"
        /\ resp[p].state = args[p].state.data
        /\ Occurs(log[p], "exchangeCode:returned")

-----------------------------------------------------------------------------
(* C26 *)

\* the profile was set from the id_token by _validateIdTokenAttributes, which
\* verifies no signature
ProfileFromUnverifiedIdToken(p) ==
    /\ Occurs(log[p], "validateJwtAttributes")
    /\ ~Occurs(log[p], "validateJwt")
    /\ resp[p].profile # Null

\* C26: the profile of a returned response is never taken from an unverified
\* front-channel id_token: whenever the profile is set from an id_token
\* without signature verification, that id_token is the one the token
\* exchange returned, not one of the callback, a callback with both a code
\* and an id_token whose exchange returns no id_token included.
C26_Original ==
    \A p \in Procs :
        (ReturnedOk(p) /\ ProfileFromUnverifiedIdToken(p)) =>
            /\ loc[p].tokenResponse # Null
            /\ Val(loc[p].tokenResponse).id_token # ""
            /\ resp[p].id_token = Val(loc[p].tokenResponse).id_token

\* what holds: the id_token whose claims became the profile without signature
\* verification is the one of the token exchange or, where the exchange
\* returned none, the one of the callback
C26_BackChannelOrFallback ==
    \A p \in Procs :
        (ReturnedOk(p) /\ ProfileFromUnverifiedIdToken(p)) =>
            /\ loc[p].tokenResponse # Null
            /\ args[p].response.code # ""
            /\ resp[p].id_token = OrElse(Val(loc[p].tokenResponse).id_token,
                                         args[p].response.id_token)

\* a callback with a code and an id_token of forged signature, an exchange
\* that returns no id_token, and a returned profile with the forged token's
\* claims
C26_Witness ==
    \E p \in Procs :
        /\ ReturnedOk(p)
        /\ args[p].response.code = "code1"
        /\ args[p].response.id_token = "idt_forged"
        /\ loc[p].tokenResponse # Null
        /\ Val(loc[p].tokenResponse).id_token = ""
        /\ resp[p].id_token = "idt_forged"
        /\ ~Occurs(log[p], "validateJwt")
        /\ Get(Profile(p), "sub").k = "s"

-----------------------------------------------------------------------------
(* C27 *)

\* the metadata fetch of caller p fails in this step
MetadataFetchFails(p) ==
    mcall[p].phase = "fetch_metadata" /\ mcall'[p].phase = "thrown"

\* the key-set fetch of caller p fails in this step, or its document has no
\* keys array
KeysFetchFails(p) ==
    mcall[p].phase = "fetch_keys" /\ mcall'[p].phase = "thrown"

\* caller p begins a call in this step
BeginsCall(p) == ~Awaiting(p) /\ Awaiting(p)'

\* in the log, the call after a failed metadata fetch fetches the document
\* again, and a getSigningKeys call after a failed key-set fetch returns only
\* after fetching the key set
RetriesAfterFailure(events) ==
    \A i \in 2..(Len(events) - 1) :
        /\ (events[i - 1] = "getJson:metadata:failed" /\ events[i] = "thrown"
                /\ events[i + 1] \in {"getMetadata", "accessor"}) =>
              (i + 2 <= Len(events) /\ events[i + 2] = "getJson:metadata")
        /\ (events[i - 1] \in {"getJson:jwks:failed", "getJson:jwks"} /\ events[i] = "thrown"
                /\ events[i + 1] = "getSigningKeys") =>
              \A k \in (i + 2)..Len(events) :
                  (events[k] = "returned"
                      /\ \A j \in (i + 2)..(k - 1) : events[j] \notin {"returned", "thrown"}) =>
                      \E j \in (i + 2)..(k - 1) : events[j] = "getJson:jwks"

\* C27: a failed cache population leaves the caches as they were: when the
\* metadata fetch fails, the call fails with that error and the metadata
\* cache stays empty; when the key-set fetch fails or the fetched key set has
\* no keys array, getSigningKeys fails, the signing-key cache stays empty and
\* the metadata cache is unchanged; a later call attempts the fetch again.
C27_FailedFetchLeavesCaches ==
    /\ [][\A p \in Procs :
            /\ MetadataFetchFails(p) =>
                  /\ mcall'[p].err = ErrNetwork
                  /\ _metadata = Null /\ _metadata' = Null
                  /\ _signingKeys' = _signingKeys
            /\ KeysFetchFails(p) =>
                  /\ mcall[p].op = "getSigningKeys"
                  /\ mcall'[p].err \in {ErrNetwork, ErrMissingKeys}
                  /\ _signingKeys = Null /\ _signingKeys' = Null
                  /\ _metadata' = _metadata
            /\ (BeginsCall(p) /\ _metadata = Null /\ _metadataUrl # ""
                    /\ (mcall'[p].op = "getSigningKeys" => _signingKeys = Null)) =>
                  /\ mcall'[p].phase = "fetch_metadata"
                  /\ log'[p][Len(log'[p])] = "getJson:metadata"
            /\ (BeginsCall(p) /\ mcall'[p].op = "getSigningKeys" /\ _signingKeys = Null) =>
                  mcall'[p].phase # "returned"]_vars
    /\ [](\A p \in Procs : RetriesAfterFailure(log[p]))

\* a key set without keys fails getSigningKeys, the key cache is still empty
\* and the metadata document still cached, and the next getSigningKeys call
\* has fetched the key set again
C27_Witness ==
    \E p \in Procs :
        /\ log[p] = <<"getSigningKeys", "getJson:metadata", "getJson:jwks", "thrown",
                      "getSigningKeys", "getJson:jwks">>
        /\ result[p] = Thrown(ErrMissingKeys)
        /\ _signingKeys = Null
        /\ _metadata # Null
        /\ mcall[p].phase = "fetch_keys"

-----------------------------------------------------------------------------
(* Specification: concurrent validations of implicit callbacks sharing one    *)
(* MetadataService with configured metadata, while the provider rotates its   *)
(* signing keys                                                               *)

\* implicit-flow callbacks with an id_token signed by the old or the new key
SharedCalls ==
    { SigninCall(SigninState("c1", Authority, "n1", "", TRUE),
                 SigninResponse("s1", "", "", it, "", "")) :
        it \in {"idt_ok", "idt_kid2"} }

\* a provider that serves the key set ks (a key-set fetch may still fail)
ProviderServing(ks) ==
    [ metadata |-> {[ok |-> TRUE, doc |-> FullMetadata]},
      keys     |-> {[ok |-> TRUE, keys |-> Some(ks)], [ok |-> FALSE, keys |-> Null]} ]

\* every invocation may be started
SharedInit ==
    /\ provider = ProviderServing(<<KeyOld>>)
    /\ \E cfg \in ValidatorSettings :
         /\ cfg.filterProtocolClaims /\ ~cfg.loadUserInfo
         /\ cfg.metadata # Null
         /\ MetadataServiceInit(cfg)
    /\ pc = [p \in Procs |-> "idle"]
    /\ args = [p \in Procs |-> NoArgs]
    /\ resp = [p \in Procs |-> NoArgs.response]
    /\ loc = [p \in Procs |-> NoLocals]
    /\ mcall = [p \in Procs |-> NoCall]
    /\ result = [p \in Procs |-> NoResult]
    /\ log = [p \in Procs |-> << >>]

\* a caller invokes validateSigninResponse(state, response)
StartShared(p) ==
    /\ pc[p] = "idle"
    /\ \E call \in SharedCalls :
         /\ args' = [args EXCEPT ![p] = call]
         /\ resp' = [resp EXCEPT ![p] = call.response]
    /\ pc' = [pc EXCEPT ![p] = "processSigninParams"]
    /\ UNCHANGED <<msVars, loc, mcall, result, log>>

\* the provider replaces its signing key: jwks_uri serves the new key set
RotateKeys ==
    /\ provider = ProviderServing(<<KeyOld>>)
    /\ provider' = ProviderServing(<<KeyNew>>)
    /\ UNCHANGED <<settings, _metadataUrl, _metadata, _signingKeys,
                   pc, args, resp, loc, mcall, result, log>>

SharedStep(p) ==
    \/ StartShared(p)
    \/ ProcessSigninParams(p)
    \/ ValidateTokens(p)
    \/ ValidateIdToken_Issuer(p)
    \/ GetSigningKeyForJwt_Keys(p)
    \/ GetSigningKeyForJwtWithSingleRetry(p)
    \/ ValidateIdToken_Key(p)
    \/ ProcessClaims(p)
    \/ MS_GetMetadataProperty(p)
    \/ MS_KeysFetched(p)

SharedNext == RotateKeys \/ \E p \in Procs : SharedStep(p)

SharedSpec == SharedInit /\ [][SharedNext]_vars

-----------------------------------------------------------------------------
(* C28 *)

\* invocation p resets the signing keys in this step
ValidatorResets(p) ==
    /\ Count(log'[p], "resetSigningKeys") = Count(log[p], "resetSigningKeys") + 1

\* the getSigningKeys call of the second key resolution of p resolves in this
\* step
SecondKeysResolve(p) ==
    /\ loc[p].attempt = 2
    /\ mcall[p].op = "getSigningKeys"
    /\ mcall[p].phase # "returned"
    /\ mcall'[p].phase = "returned"

\* what jwks_uri serves
ServedKeys == {r.keys : r \in {x \in provider.keys : x.ok}}

\* in the log, the second key resolution follows a key-set fetch that follows
\* the reset
FetchedBetweenResetAndRetry(events) ==
    \A i \in 1..Len(events) :
        events[i] = "resetSigningKeys" =>
            \A k \in (i + 1)..Len(events) :
                events[k] \in {"resolve:null", "resolve:key"} =>
                    \E j \in (i + 1)..(k - 1) : events[j] = "getJson:jwks"

\* C28: under any interleaving of concurrent validations sharing one
\* MetadataService, the second key resolution of a validation is never served
\* from a key set cached before its reset: the reset and the cache check of
\* the retry are one step, so the retry goes to the network whatever the
\* cache held, and the keys it resolves with are the result of its own
\* key-set fetch, issued after the reset.
C28_RetryNeverFromStaleCache ==
    /\ [][\A p \in Procs :
            /\ ValidatorResets(p) =>
                  /\ _signingKeys' = Null
                  /\ loc'[p].attempt = 2
                  /\ mcall'[p].op = "getSigningKeys"
                  /\ mcall'[p].phase \in {"have_metadata", "fetch_metadata"}
            /\ SecondKeysResolve(p) =>
                  /\ mcall[p].phase = "fetch_keys"
                  /\ mcall'[p].keys \in ServedKeys
                  /\ _signingKeys' = mcall'[p].keys]_vars
    /\ [](\A p \in Procs :
            /\ Count(log[p], "resetSigningKeys") <= 1
            /\ FetchedBetweenResetAndRetry(log[p]))

\* the keys rotated while two validations ran: after the reset of p the other
\* validation put the old key set into the cache again, and the retry of p
\* is waiting for its own key-set fetch, not served from that cache
C28_Witness ==
    \E p \in Procs, q \in Procs :
        /\ p # q
        /\ provider = ProviderServing(<<KeyNew>>)
        /\ args[p].response.id_token = "idt_kid2"
        /\ loc[p].attempt = 2
        /\ Occurs(log[p], "resetSigningKeys")
        /\ mcall[p].phase = "fetch_keys"
        /\ _signingKeys = Some(<<KeyOld>>)
        /\ Occurs(log[q], "getJson:jwks")

====
